---- MODULE Spec2Model ----
(***************************************************************************)
(* A model of seedkit's core (src/main.go, the version of lines 366-1026): *)
(* the BIP-39 partial-mnemonic checksum completion (bip39Entropy,          *)
(* bip39ChecksumWords, BipCheckwordCmd.Run), the flat word-list            *)
(* reconstruction (convertWordsToShares), the group parser (parseGroups),  *)
(* the reading of the input (readSeedMnemonic, readShareMnemonics) and     *)
(* parallel calls of bip39ChecksumWords.                                   *)
(***************************************************************************)
EXTENDS Integers, Sequences, FiniteSets, TLC

VARIABLES
    entry,            \* who called bip39ChecksumWords: "none", "direct", "run"
    partialWords,     \* the argument of bip39ChecksumWords / the words Run works on
    pc,               \* position: "idle", "entropy", "loop", "resume", "done"
    entropyCandidate, \* the big.Int entropy / entropyBase / entropyCandidate
    buf,              \* the byte buffer FillBytes writes
    i,                \* the loop index of bip39ChecksumWords
    checksums,        \* the candidate list being built
    ret,              \* what bip39ChecksumWords returned
    cmd,              \* the BipCheckwordCmd flags: Multi, Word, Deterministic
    written,          \* the lines written to ctx.writer
    validated,        \* how many candidates the Multi branch of Run has validated
    runRet,           \* what BipCheckwordCmd.Run returned
    earlier,          \* an earlier invocation of bip39ChecksumWords: its argument and result
    origShares,       \* the share list the words given to convertWordsToShares come from
    flatWords,        \* the argument of convertWordsToShares
    sharesRet,        \* what convertWordsToShares returned
    groupstr,         \* the argument of parseGroups
    groupsRet,        \* what parseGroups returned
    args,             \* the argument tokens of readSeedMnemonic / readShareMnemonics
    reader,           \* ctx.reader: the bytes it delivers and whether it then fails
    inputFn,          \* which of the two was called: "none", "seed", "share"
    mnemonics,        \* the list readShareMnemonics assembled (its local mnemonics)
    consumed,         \* how many bytes were read from ctx.reader
    reads,            \* how many times ctx.reader was read through
    inputRet,         \* what readSeedMnemonic / readShareMnemonics returned
    goroutines,       \* the parallel tests: each one's call of bip39ChecksumWords and its locals
    bufs              \* the byte buffers the parallel calls allocated

checksumVars == <<entropyCandidate, buf, i, checksums>>
runVars == <<cmd, written, validated, runRet>>
shareVars == <<origShares, flatWords, sharesRet>>
groupVars == <<groupstr, groupsRet>>
inputVars == <<args, reader, inputFn, mnemonics, consumed, reads, inputRet>>
\* what the checksum completion leaves alone
concVars == <<goroutines, bufs>>
restVars == <<shareVars, groupVars, inputVars, concVars>>
completionVars == <<entry, partialWords, pc, entropyCandidate, buf, i, checksums, ret,
                    cmd, written, validated, runRet, earlier>>
vars == <<completionVars, restVars>>

(***************************************************************************)
(* Bounds of the model.                                                    *)
(***************************************************************************)
\* how many distinct vocabulary words the phrases are drawn from
NumWordChoices == 2
\* how many distinct out-of-vocabulary words the phrases are drawn from
NumBadWords == 2

(***************************************************************************)
(* The vocabulary (github.com/tyler-smith/go-bip39): 2048 words, a word    *)
(* is known by its position.  A vocabulary word is <<"w", idx>>, any       *)
(* other value is not in the vocabulary.                                   *)
(***************************************************************************)
VocabularySize == 2048
WordBits == 11

\* wordlist[idx]
WordAt(idx) == <<"w", idx>>

\* bip39.GetWordIndex(w): <<idx, ok>>
GetWordIndex(w) ==
    IF w[1] = "w" /\ w[2] \in 0..(VocabularySize - 1)
    THEN <<w[2], TRUE>>
    ELSE <<0, FALSE>>

(***************************************************************************)
(* math/big.Int restricted to the naturals: a number is the sequence of    *)
(* its base-256 digits, least significant first, with no leading zero      *)
(* digit (big.Int keeps 64-bit words the same way).                        *)
(***************************************************************************)
BigZero == <<>>

\* the sequence with the elements of the function f over 1..n
Seq1(f) == f \o <<>>

\* drop one leading (most significant) zero digit
BigNorm(x) ==
    IF Len(x) > 0 /\ x[Len(x)] = 0 THEN SubSeq(x, 1, Len(x) - 1) ELSE x

RECURSIVE BigNewInt(_)
BigNewInt(v) == IF v = 0 THEN <<>> ELSE <<(v % 256)>> \o BigNewInt(v \div 256)

DigitAt(x, j) == IF j >= 1 /\ j <= Len(x) THEN x[j] ELSE 0

\* z.Lsh(x, n)
BigLsh(x, n) ==
    IF Len(x) = 0 THEN <<>>
    ELSE LET q == n \div 8
             m == 2 ^ (n % 8)
         IN  BigNorm(Seq1([j \in 1..(Len(x) + q + 1) |->
                 IF j <= q THEN 0
                 ELSE ((DigitAt(x, j - q) * m) % 256)
                      + ((DigitAt(x, j - q - 1) * m) \div 256)]))

\* a | b on two bytes
RECURSIVE ByteOr(_, _)
ByteOr(a, b) ==
    IF a = 0 THEN b
    ELSE IF b = 0 THEN a
    ELSE (IF a % 2 = 1 \/ b % 2 = 1 THEN 1 ELSE 0) + 2 * ByteOr(a \div 2, b \div 2)

\* z.Or(x, y)
BigOr(x, y) ==
    LET n == IF Len(x) >= Len(y) THEN Len(x) ELSE Len(y)
    IN  Seq1([j \in 1..n |-> ByteOr(DigitAt(x, j), DigitAt(y, j))])

RECURSIVE BigAddFrom(_, _, _, _)
BigAddFrom(x, y, j, carry) ==
    IF j > Len(x) /\ j > Len(y)
    THEN IF carry = 1 THEN <<1>> ELSE <<>>
    ELSE LET s == DigitAt(x, j) + DigitAt(y, j) + carry
         IN  IF carry = 0 /\ j > Len(y) THEN SubSeq(x, j, Len(x))
             ELSE <<(s % 256)>> \o BigAddFrom(x, y, j + 1, s \div 256)

\* z.Add(x, y)
BigAdd(x, y) == BigAddFrom(x, y, 1, 0)

\* x.FillBytes(buf) panics when x does not fit len(buf) bytes
FillBytesFits(x, n) == Len(x) <= n

\* x.FillBytes(buf): the big-endian bytes of x, zero-extended to len(buf)
FillBytes(x, n) == Seq1([k \in 1..n |-> DigitAt(x, n - k + 1)])

(***************************************************************************)
(* crypto/sha256 is outside the repository: hash[0] is a fixed function    *)
(* of the bytes hashed.  The model uses a fixed byte-mixing function with  *)
(* values in 0..255 that depends on every byte and on the length.          *)
(***************************************************************************)
RECURSIVE HashMix(_, _, _)
\* (h is never negative: the test has h computed before the next byte is mixed in)
HashMix(bytes, k, h) ==
    IF k > Len(bytes) \/ h < 0 THEN h
    ELSE HashMix(bytes, k + 1, (h * 167 + bytes[k] * 13 + k + 91) % 256)

\* sha256.New(); h.Write(entropyBytes); h.Sum(nil)[0]
Sha256FirstByte(bytes) == HashMix(bytes, 1, 106)

(***************************************************************************)
(* bip39Entropy                                                            *)
(***************************************************************************)
\* the loop from word k on, i = acc (Len(acc) makes TLC evaluate acc at each
\* word instead of nesting the unevaluated shifts of the whole phrase)
RECURSIVE Bip39EntropyFrom(_, _, _)
Bip39EntropyFrom(words, k, acc) ==
    IF k > Len(words) \/ Len(acc) < 0 THEN [ok |-> TRUE, value |-> acc]
    ELSE LET r == GetWordIndex(words[k])
         IN  IF ~r[2]
             THEN [ok |-> FALSE, err |-> "invalid mnemonic word", word |-> words[k]]
             ELSE Bip39EntropyFrom(words, k + 1,
                      BigOr(BigLsh(acc, WordBits), BigNewInt(r[1])))

\* a variant that names the last word of the phrase in its error
bip39EntropyNamesLastWord(words) ==
    LET r == Bip39EntropyFrom(words, 1, BigZero)
    IN  IF r.ok THEN r ELSE [r EXCEPT !.word = words[Len(words)]]

bip39Entropy(words) == Bip39EntropyFrom(words, 1, BigZero)

(***************************************************************************)
(* The arithmetic of bip39ChecksumWords                                    *)
(***************************************************************************)
Size(words) == Len(words) + 1
ChecksumBits(words) == Size(words) \div 3
\* a variant that sizes the buffer for the bits of the known words alone
EntropySizeOfKnownWords(words) == (Len(words) * 11) \div 8

EntropySize(words) == (Size(words) * 11 - ChecksumBits(words)) \div 8
EntropyToFill(words) == 11 - ChecksumBits(words)
\* a variant that iterates over the checksum bits instead of the entropy bits
IterationsOverChecksumBits(words) == 2 ^ ChecksumBits(words)

\* int(math.Pow(2, float64(entropyToFill)))
Iterations(words) == 2 ^ EntropyToFill(words)

\* a variant that keeps the low bits of the hash byte instead of the top ones
ChecksumLowBits(hash0, checksumBits) == hash0 % (2 ^ checksumBits)

\* int(hash[0]) >> (8 - checksumBits)
Checksum(hash0, checksumBits) == hash0 \div (2 ^ (8 - checksumBits))

\* a variant that puts the checksum above the entropy bits
CheckwordIndexChecksumFirst(n, checksumBits, checksum) ==
    checksum * (2 ^ (11 - checksumBits)) + n

\* (i << checksumBits) + checksum
CheckwordIndex(n, checksumBits, checksum) == n * (2 ^ checksumBits) + checksum

(***************************************************************************)
(* The phrases the calls are made with: a first word, a filler for the     *)
(* middle and a last word, each a vocabulary word or an unknown word.      *)
(***************************************************************************)
SampleIndexes == <<0, 2047, 1365, 682, 3, 1024>>
GoodWords == {WordAt(SampleIndexes[k]) : k \in 1..NumWordChoices}
BadWords == {<<"bad", k>> : k \in 1..NumBadWords}
Words == GoodWords \cup BadWords

Phrase(n, a, b, c) == Seq1([k \in 1..n |-> IF k = 1 THEN a ELSE IF k = n THEN c ELSE b])

PartialLengths == {11, 23}
DirectInputs == {Phrase(n, a, b, c) : n \in PartialLengths, a \in Words, b \in Words, c \in Words}

\* the smaller family of the repeated calls: one vocabulary word, then a
\* last word that is a vocabulary word or the first unknown word
RepeatInputs ==
    {Phrase(n, a, a, c) : n \in PartialLengths, a \in GoodWords,
                          c \in GoodWords \cup {<<"bad", 1>>}}

\* the word counts BipCheckwordCmd.Run is given
RunLengths == {0, 1, 10, 11, 12, 22, 23, 24}
RunInputs == {Phrase(n, a, a, c) : n \in RunLengths, a \in Words, c \in Words}
Flags == [Multi : BOOLEAN, Word : BOOLEAN, Deterministic : BOOLEAN]

NoReturn == [kind |-> "none"]
NoCmd == [Multi |-> FALSE, Word |-> FALSE, Deterministic |-> FALSE]

(***************************************************************************)
(* bip39.IsMnemonicValid (github.com/tyler-smith/go-bip39): the words are  *)
(* 12, 15, 18, 21 or 24 vocabulary words, and the last checksumBits bits   *)
(* of their 11-bit indexes are the top bits of the hash of the bits        *)
(* before them.  Bits are kept most significant first.                     *)
(***************************************************************************)
\* bit j (from 1, most significant first) of the indexes idxs, 11 bits each
PhraseBit(idxs, j) == (idxs[((j - 1) \div 11) + 1] \div (2 ^ (10 - ((j - 1) % 11)))) % 2

\* byte k (from 1) of the bit string of idxs
PhraseByte(idxs, k) ==
    LET o == 8 * (k - 1)
    IN  128 * PhraseBit(idxs, o + 1) + 64 * PhraseBit(idxs, o + 2)
        + 32 * PhraseBit(idxs, o + 3) + 16 * PhraseBit(idxs, o + 4)
        + 8 * PhraseBit(idxs, o + 5) + 4 * PhraseBit(idxs, o + 6)
        + 2 * PhraseBit(idxs, o + 7) + PhraseBit(idxs, o + 8)

\* the entropy bytes of a full phrase: its bits without the checksum bits
PhraseEntropyBytes(idxs) ==
    LET n == (11 * Len(idxs) - (Len(idxs) \div 3)) \div 8
    IN  Seq1([k \in 1..n |-> PhraseByte(idxs, k)])

\* the checksum bits a full phrase carries: the low bits of its last index
PhraseChecksum(idxs) == idxs[Len(idxs)] % (2 ^ (Len(idxs) \div 3))

\* the checksum the entropy of a full phrase asks for
ExpectedChecksum(idxs) ==
    Sha256FirstByte(PhraseEntropyBytes(idxs)) \div (2 ^ (8 - (Len(idxs) \div 3)))

IsMnemonicValid(words) ==
    /\ Len(words) \in {12, 15, 18, 21, 24}
    /\ \A k \in 1..Len(words) : GetWordIndex(words[k])[2]
    /\ LET idxs == Seq1([k \in 1..Len(words) |-> GetWordIndex(words[k])[1]])
       IN  PhraseChecksum(idxs) = ExpectedChecksum(idxs)

(***************************************************************************)
(* The state machine                                                       *)
(***************************************************************************)
\* nothing called yet
CompletionInit ==
    /\ entry = "none"
    /\ partialWords = <<>>
    /\ pc = "idle"
    /\ entropyCandidate = BigZero
    /\ buf = <<>>
    /\ i = 0
    /\ checksums = <<>>
    /\ ret = NoReturn
    /\ cmd = NoCmd
    /\ written = <<>>
    /\ validated = 0
    /\ runRet = NoReturn
    /\ earlier = NoReturn

SharesIdle ==
    /\ origShares = <<>>
    /\ flatWords = <<>>
    /\ sharesRet = NoReturn

GroupsIdle ==
    /\ groupstr = <<>>
    /\ groupsRet = NoReturn

InputIdle ==
    /\ args = <<>>
    /\ reader = [data |-> <<>>, err |-> FALSE]
    /\ inputFn = "none"
    /\ mnemonics = <<>>
    /\ consumed = 0
    /\ reads = 0
    /\ inputRet = NoReturn

\* the tests that run in parallel (t.Parallel())
Procs == {"TestBip39ChecksumWords", "TestBipCheckword"}

\* a test that has not called bip39ChecksumWords
IdleGoroutine ==
    [pc |-> "idle", partialWords |-> <<>>, entropyCandidate |-> BigZero, i |-> 0,
     checksums |-> <<>>, ret |-> NoReturn]

ConcIdle ==
    /\ goroutines = [p \in Procs |-> IdleGoroutine]
    /\ bufs = [p \in Procs |-> <<>>]

Init == CompletionInit /\ SharesIdle /\ GroupsIdle /\ InputIdle /\ ConcIdle

\* a caller (TestBip39ChecksumWords) calls bip39ChecksumWords(p)
CallChecksumWords(p) ==
    /\ pc = "idle"
    /\ entry' = "direct"
    /\ partialWords' = p
    /\ pc' = "entropy"
    /\ ret' = NoReturn
    /\ UNCHANGED <<checksumVars, runVars, earlier, restVars>>

\* where a return of bip39ChecksumWords leads
AfterReturn == IF entry = "run" THEN "resume" ELSE "done"

\* a variant whose candidate list outlives the call (a package-level slice
\* that is appended to and never emptied)
ChecksumWordsBeginKeepsList ==
    /\ pc = "entropy"
    /\ LET e == bip39Entropy(partialWords)
       IN  IF ~e.ok
           THEN /\ ret' = [kind |-> "error", err |-> e.err, word |-> e.word]
                /\ pc' = AfterReturn
                /\ UNCHANGED checksumVars
           ELSE /\ entropyCandidate' = BigLsh(e.value, EntropyToFill(partialWords))
                /\ buf' = Seq1([k \in 1..EntropySize(partialWords) |-> 0])
                /\ i' = 0
                /\ checksums' = checksums
                /\ pc' = "loop"
                /\ UNCHANGED ret
    /\ UNCHANGED <<entry, partialWords, runVars, earlier, restVars>>

\* bip39ChecksumWords up to its loop: lines 943-959
ChecksumWordsBegin ==
    /\ pc = "entropy"
    /\ LET e == bip39Entropy(partialWords)
       IN  IF ~e.ok
           THEN /\ ret' = [kind |-> "error", err |-> e.err, word |-> e.word]
                /\ pc' = AfterReturn
                /\ UNCHANGED checksumVars
           ELSE /\ entropyCandidate' = BigLsh(e.value, EntropyToFill(partialWords))
                /\ buf' = Seq1([k \in 1..EntropySize(partialWords) |-> 0])
                /\ i' = 0
                /\ checksums' = <<>>
                /\ pc' = "loop"
                /\ UNCHANGED ret
    /\ UNCHANGED <<entry, partialWords, runVars, earlier, restVars>>

\* one iteration of the loop: lines 960-970
ChecksumWordsIterate ==
    /\ pc = "loop"
    /\ i < Iterations(partialWords)
    /\ IF ~FillBytesFits(entropyCandidate, Len(buf))
       THEN /\ pc' = "done"
            /\ ret' = [kind |-> "panic", err |-> "math/big: buffer too small to fit value"]
            /\ UNCHANGED checksumVars
       ELSE LET entropyBytes == FillBytes(entropyCandidate, Len(buf))
                checksum == Checksum(Sha256FirstByte(entropyBytes), ChecksumBits(partialWords))
                idx == CheckwordIndex(i, ChecksumBits(partialWords), checksum)
            IN  /\ buf' = entropyBytes
                /\ checksums' = Append(checksums, WordAt(idx))
                /\ entropyCandidate' = BigAdd(entropyCandidate, BigNewInt(1))
                /\ i' = i + 1
                /\ UNCHANGED <<pc, ret>>
    /\ UNCHANGED <<entry, partialWords, runVars, earlier, restVars>>

\* return checksums, nil: line 972
ChecksumWordsReturn ==
    /\ pc = "loop"
    /\ i >= Iterations(partialWords)
    /\ ret' = [kind |-> "ok", words |-> checksums]
    /\ pc' = AfterReturn
    /\ UNCHANGED <<entry, partialWords, checksumVars, runVars, earlier, restVars>>

\* a variant that only rejects the phrases that are too short
InvalidSeedLengthOnlyShort(n) == n < 11

\* len(partialWords) != 11 && len(partialWords) != 23: line 505
InvalidSeedLength(n) == n # 11 /\ n # 23

\* a variant that looks the words up before it counts them
RunBeginWordsFirst(c, words) ==
    /\ pc = "idle"
    /\ entry' = "run"
    /\ cmd' = c
    /\ partialWords' = words
    /\ written' = <<>>
    /\ validated' = 0
    /\ ret' = NoReturn
    /\ IF ~bip39Entropy(words).ok
       THEN /\ runRet' = [kind |-> "error", err |-> "invalid mnemonic word",
                          word |-> bip39Entropy(words).word]
            /\ pc' = "done"
       ELSE IF Len(words) = 0
       THEN /\ runRet' = [kind |-> "error", err |-> "no mnemonic seed provided"]
            /\ pc' = "done"
       ELSE IF InvalidSeedLength(Len(words))
       THEN /\ runRet' = [kind |-> "error", err |-> "invalid mnemonic seed length",
                          length |-> Len(words)]
            /\ pc' = "done"
       ELSE /\ runRet' = NoReturn
            /\ pc' = "entropy"
    /\ UNCHANGED <<checksumVars, earlier, restVars>>

\* BipCheckwordCmd.Run on the words of the mnemonic read, up to its call of
\* bip39ChecksumWords: lines 501-510
RunBegin(c, words) ==
    /\ pc = "idle"
    /\ entry' = "run"
    /\ cmd' = c
    /\ partialWords' = words
    /\ written' = <<>>
    /\ validated' = 0
    /\ ret' = NoReturn
    /\ IF Len(words) = 0
       THEN /\ runRet' = [kind |-> "error", err |-> "no mnemonic seed provided"]
            /\ pc' = "done"
       ELSE IF InvalidSeedLength(Len(words))
       THEN /\ runRet' = [kind |-> "error", err |-> "invalid mnemonic seed length",
                          length |-> Len(words)]
            /\ pc' = "done"
       ELSE /\ runRet' = NoReturn
            /\ pc' = "entropy"
    /\ UNCHANGED <<checksumVars, earlier, restVars>>

\* a variant that writes the whole phrase whether Word is set or not
OutputLineAlwaysPhrase(c, words, w) == Append(words, w)

\* a variant that writes the checksum word alone whether Word is set or not
OutputLineAlwaysWord(c, words, w) == <<w>>

\* the line Run writes for checksum word w: lines 527-532, 542-551
OutputLine(c, words, w) == IF c.Word THEN <<w>> ELSE Append(words, w)

\* the first checksum word whose phrase is not valid, 0 if none: lines 517-523
FirstInvalid(words, cw, k) ==
    LET bad == {j \in k..Len(cw) : ~IsMnemonicValid(Append(words, cw[j]))}
    IN  IF bad = {} THEN 0
        ELSE CHOOSE j \in bad : \A o \in bad : j <= o

\* BipCheckwordCmd.Run after bip39ChecksumWords returned: lines 511-553
RunFinish ==
    /\ pc = "resume"
    /\ pc' = "done"
    /\ IF ret.kind = "error"
       THEN /\ runRet' = ret
            /\ UNCHANGED written
       ELSE IF cmd.Multi
       THEN LET bad == FirstInvalid(partialWords, ret.words, 1)
            IN  IF bad # 0
                THEN /\ runRet' = [kind |-> "error", err |-> "generated invalid mnemonic",
                                   seed |-> Append(partialWords, ret.words[bad])]
                     /\ UNCHANGED written
                ELSE /\ runRet' = [kind |-> "ok"]
                     /\ written' = written \o Seq1([k \in 1..Len(ret.words) |->
                                       OutputLine(cmd, partialWords, ret.words[k])])
       ELSE \E r \in 1..Len(ret.words) :
                /\ (cmd.Deterministic => r = 1)
                /\ IF ~IsMnemonicValid(Append(partialWords, ret.words[r]))
                   THEN /\ runRet' = [kind |-> "error", err |-> "generated invalid mnemonic",
                                      seed |-> Append(partialWords, ret.words[r])]
                        /\ UNCHANGED written
                   ELSE /\ runRet' = [kind |-> "ok"]
                        /\ written' = Append(written, OutputLine(cmd, partialWords, ret.words[r]))
    /\ validated' = IF ret.kind = "error" \/ ~cmd.Multi THEN validated
                     ELSE IF FirstInvalid(partialWords, ret.words, 1) # 0
                     THEN FirstInvalid(partialWords, ret.words, 1) - 1
                     ELSE Len(ret.words)
    /\ UNCHANGED <<entry, partialWords, checksumVars, ret, cmd, earlier, restVars>>

\* the caller goes on to its next call (the test's loop over its cases),
\* keeping or not what the call just made returned
NextCall(keep) ==
    /\ pc = "done"
    /\ entry = "direct"
    /\ pc' = "idle"
    /\ earlier' = IF keep /\ earlier = NoReturn
                  THEN [kind |-> "call", words |-> partialWords, ret |-> ret]
                  ELSE earlier
    /\ UNCHANGED <<entry, partialWords, checksumVars, ret, runVars, restVars>>

\* one call, of bip39ChecksumWords or of BipCheckwordCmd.Run
Next ==
    \/ \E p \in DirectInputs : CallChecksumWords(p)
    \/ \E c \in Flags, p \in RunInputs : RunBegin(c, p)
    \/ ChecksumWordsBegin
    \/ ChecksumWordsIterate
    \/ ChecksumWordsReturn
    \/ RunFinish

Spec == Init /\ [][Next]_vars

\* calls of bip39ChecksumWords one after the other
NextRepeat ==
    \/ \E p \in RepeatInputs : CallChecksumWords(p)
    \/ ChecksumWordsBegin
    \/ ChecksumWordsIterate
    \/ ChecksumWordsReturn
    \/ \E keep \in BOOLEAN : NextCall(keep)

SpecRepeat == Init /\ [][NextRepeat]_vars

(***************************************************************************)
(* The Multi branch of BipCheckwordCmd.Run, one loop iteration at a time.  *)
(* bip39.IsMnemonicValid is outside the repository, and its model accepts  *)
(* every candidate of bip39ChecksumWords: refused stands for a library     *)
(* that rejects the phrase, which is what lines 520-522 are there for.     *)
(***************************************************************************)
\* a variant whose output starts while candidates are still to be validated
OutputMayStartAtOnce(done, total) == done > 0

\* the output loop starts when the validation loop has ended: lines 517-526
OutputMayStart(done, total) == done = total

\* one iteration of the validation loop: lines 517-523
RunValidate(refused) ==
    /\ pc = "resume"
    /\ ret.kind = "ok"
    /\ cmd.Multi
    /\ validated < Len(ret.words)
    /\ IF refused \/ ~IsMnemonicValid(Append(partialWords, ret.words[validated + 1]))
       THEN /\ runRet' = [kind |-> "error", err |-> "generated invalid mnemonic",
                          seed |-> Append(partialWords, ret.words[validated + 1])]
            /\ pc' = "done"
            /\ UNCHANGED validated
       ELSE /\ validated' = validated + 1
            /\ UNCHANGED <<pc, runRet>>
    /\ UNCHANGED <<entry, partialWords, checksumVars, ret, cmd, written, earlier, restVars>>

\* one iteration of the output loop: lines 526-533
RunOutput ==
    /\ pc = "resume"
    /\ ret.kind = "ok"
    /\ cmd.Multi
    /\ OutputMayStart(validated, Len(ret.words))
    /\ Len(written) < Len(ret.words)
    /\ written' = Append(written, OutputLine(cmd, partialWords, ret.words[Len(written) + 1]))
    /\ UNCHANGED <<entry, partialWords, pc, checksumVars, ret, cmd, validated, runRet,
                   earlier, restVars>>

\* return nil: line 534
RunMultiReturn ==
    /\ pc = "resume"
    /\ ret.kind = "ok"
    /\ cmd.Multi
    /\ validated = Len(ret.words)
    /\ Len(written) = Len(ret.words)
    /\ runRet' = [kind |-> "ok"]
    /\ pc' = "done"
    /\ UNCHANGED <<entry, partialWords, checksumVars, ret, cmd, written, validated,
                   earlier, restVars>>

\* return err: lines 511-513
RunReturnError ==
    /\ ret.kind = "error"
    /\ RunFinish

NextMulti ==
    \/ \E c \in {f \in Flags : f.Multi}, p \in RepeatInputs : RunBegin(c, p)
    \/ ChecksumWordsBegin
    \/ ChecksumWordsIterate
    \/ ChecksumWordsReturn
    \/ RunReturnError
    \/ \E refused \in BOOLEAN : RunValidate(refused)
    \/ RunOutput
    \/ RunMultiReturn

SpecMulti == Init /\ [][NextMulti]_vars

(***************************************************************************)
(* Strings are sequences of character codes.                               *)
(***************************************************************************)
Space == 32

\* strings.Join(words, " ")
RECURSIVE JoinFrom(_, _)
JoinFrom(words, k) ==
    IF k > Len(words) THEN <<>>
    ELSE IF k = Len(words) THEN words[k]
    ELSE words[k] \o <<Space>> \o JoinFrom(words, k + 1)

Join(words) == JoinFrom(words, 1)

(***************************************************************************)
(* convertWordsToShares                                                    *)
(***************************************************************************)
\* a variant that tries the share length 20 before 33
ShareLengthTwentyFirst(n) ==
    IF n % 20 = 0 THEN 20 ELSE IF n % 33 = 0 THEN 33 ELSE 0

\* mlen: lines 862-867
ShareLength(n) ==
    IF n % 33 = 0 THEN 33 ELSE IF n % 20 = 0 THEN 20 ELSE 0

\* a variant whose slice is one word short: words[i:i+mlen-1]
ShareChunkShort(words, j, mlen) ==
    Join(SubSeq(words, (j - 1) * mlen + 1, j * mlen - 1))

\* strings.Join(words[i:i+mlen], " ") for the j-th value of i: line 877
ShareChunk(words, j, mlen) ==
    Join(SubSeq(words, (j - 1) * mlen + 1, j * mlen))

convertWordsToShares(words) ==
    IF Len(words) = 0
    THEN [kind |-> "error", err |-> "no SLIP39 mnemonic words provided"]
    ELSE LET mlen == ShareLength(Len(words))
         IN  IF mlen = 0
             THEN [kind |-> "error",
                   err |-> "invalid SLIP39 word list length - not a multiple of 33 or 20",
                   length |-> Len(words)]
             ELSE [kind |-> "ok",
                   shares |-> Seq1([j \in 1..(Len(words) \div mlen) |->
                                       ShareChunk(words, j, mlen)])]

(***************************************************************************)
(* The word lists convertWordsToShares is called with: the words of a      *)
(* list of shares of 20 or of 33 words, or any number of words.            *)
(***************************************************************************)
\* how many shares a flattened share list has
MaxShares == 33
\* how many words a word list that comes from no share list has
MaxFlatWords == 70
\* how many ways of choosing the words
NumPatterns == 2

ShareLengths == {20, 33}

\* the p-th word under pattern t: two lowercase letters, three when t > 1
SampleWord(p, t) ==
    <<97 + ((p * t) % 26), 97 + ((p \div 26) % 26)>>
    \o (IF t > 1 THEN <<97 + ((p \div 676) % 26)>> ELSE <<>>)

SampleWords(n, t) == Seq1([p \in 1..n |-> SampleWord(p, t)])

SampleShares(n, len, t) ==
    Seq1([s \in 1..n |->
        Join(Seq1([k \in 1..len |-> SampleWord((s - 1) * len + k, t)]))])

\* the pieces of string s between its spaces, as strings.Split(s, " "),
\* from position from on
RECURSIVE SplitFrom(_, _)
SplitFrom(s, from) ==
    IF \A q \in from..Len(s) : s[q] # Space
    THEN <<SubSeq(s, from, Len(s))>>
    ELSE LET q == CHOOSE q \in from..Len(s) :
                      s[q] = Space /\ \A r \in from..(q - 1) : s[r] # Space
         IN  <<SubSeq(s, from, q - 1)>> \o SplitFrom(s, q + 1)

SplitOnSpace(s) == SplitFrom(s, 1)

\* the words of a share list, one word per entry
RECURSIVE WordsFrom(_, _)
WordsFrom(list, k) ==
    IF k > Len(list) THEN <<>> ELSE SplitOnSpace(list[k]) \o WordsFrom(list, k + 1)

WordsOf(list) == WordsFrom(list, 1)

SharesInit ==
    /\ CompletionInit
    /\ GroupsIdle
    /\ InputIdle
    /\ ConcIdle
    /\ sharesRet = NoReturn
    /\ \/ \E n \in 1..MaxShares, len \in ShareLengths, t \in 1..NumPatterns :
              /\ origShares = SampleShares(n, len, t)
              /\ flatWords = WordsOf(origShares)
       \/ \E n \in 0..MaxFlatWords, t \in 1..NumPatterns :
              /\ origShares = <<>>
              /\ flatWords = SampleWords(n, t)

\* a caller calls convertWordsToShares(flatWords)
ConvertWordsToShares ==
    /\ sharesRet = NoReturn
    /\ sharesRet' = convertWordsToShares(flatWords)
    /\ UNCHANGED <<origShares, flatWords, groupVars, inputVars, concVars, completionVars>>

NextShares == ConvertWordsToShares

SpecShares == SharesInit /\ [][NextShares]_vars

(***************************************************************************)
(* Reading the input: readStdinSeedMnemonic, readSeedMnemonic and          *)
(* readShareMnemonics.  ctx.reader is the bytes it delivers, and whether   *)
(* it ends them with an error instead of the end of the input.             *)
(***************************************************************************)
\* the white space of strings.TrimSpace and of \s, among the characters of
\* the model: tab, newline, carriage return, space
IsSpaceChar(c) == c \in {9, 10, 13, Space}

\* a variant that trims nothing
TrimNothing(s) == s

\* strings.TrimSpace
TrimSpace(s) ==
    LET solid == {k \in 1..Len(s) : ~IsSpaceChar(s[k])}
    IN  IF solid = {} THEN <<>>
        ELSE SubSeq(s, CHOOSE k \in solid : \A o \in solid : k <= o,
                       CHOOSE k \in solid : \A o \in solid : k >= o)

\* a variant that leaves the case of a letter alone
KeepCase(c) == c

\* unicode.ToLower of an ASCII character
ToLowerChar(c) == IF c \in 65..90 THEN c + 32 ELSE c

\* strings.ToLower
ToLower(s) == Seq1([k \in 1..Len(s) |-> ToLowerChar(s[k])])

\* what reWhitespace.ReplaceAllString(s, " ") leaves of character k: the
\* character, one space for the first character of a run of white space,
\* nothing for the others of the run
CollapseAt(s, k) ==
    IF ~IsSpaceChar(s[k]) THEN <<s[k]>>
    ELSE IF k > 1 /\ IsSpaceChar(s[k - 1]) THEN <<>>
    ELSE <<Space>>

\* the same of characters lo to hi, by halves
RECURSIVE CollapseBetween(_, _, _)
CollapseBetween(s, lo, hi) ==
    IF lo > hi THEN <<>>
    ELSE IF lo = hi THEN CollapseAt(s, lo)
    ELSE LET mid == (lo + hi) \div 2
         IN  CollapseBetween(s, lo, mid) \o CollapseBetween(s, mid + 1, hi)

CollapseWhitespace(s) == CollapseBetween(s, 1, Len(s))

\* strings.Contains(s, " ")
ContainsSpace(s) == \E k \in 1..Len(s) : s[k] = Space

\* bufio.ScanLines without its trailing carriage return
DropCR(line) ==
    IF Len(line) > 0 /\ line[Len(line)] = 13 THEN SubSeq(line, 1, Len(line) - 1) ELSE line

\* the lines bufio.Scanner finds in data from position from on: the pieces
\* that end with a newline, and what follows the last newline when it is
\* not empty
RECURSIVE LinesFrom(_, _)
LinesFrom(data, from) ==
    IF from > Len(data) THEN <<>>
    ELSE IF \A q \in from..Len(data) : data[q] # 10
    THEN <<DropCR(SubSeq(data, from, Len(data)))>>
    ELSE LET q == CHOOSE q \in from..Len(data) :
                      data[q] = 10 /\ \A r \in from..(q - 1) : data[r] # 10
         IN  <<DropCR(SubSeq(data, from, q - 1))>> \o LinesFrom(data, q + 1)

ScanLines(data) == LinesFrom(data, 1)

\* readStdinSeedMnemonic: lines 826-838
readStdinSeedMnemonic(rd) ==
    IF rd.err
    THEN [kind |-> "error", err |-> "reading stdin"]
    ELSE [kind |-> "ok", mnemonic |-> CollapseWhitespace(TrimSpace(rd.data))]

\* readSeedMnemonic: lines 840-853; what it returns, and what it read
readSeedMnemonic(a, rd) ==
    IF Len(a) > 0
    THEN [ret |-> [kind |-> "ok", mnemonic |-> Join(a)], consumed |-> 0, reads |-> 0]
    ELSE [ret |-> readStdinSeedMnemonic(rd), consumed |-> Len(rd.data), reads |-> 1]

\* a variant whose limit is 2 and not 20
QuotedArgsBelowTwo(n) == n > 0 /\ n < 2

\* len(args) > 0 && len(args) < 20: line 888
QuotedArgs(n) == n > 0 /\ n < 20

\* a variant that takes 20 arguments for quoted mnemonics still
SingleMnemonicArgsAboveTwenty(n) == n > 20

\* len(args) >= 20: line 893
SingleMnemonicArgs(n) == n >= 20

\* the list the arguments give: lines 888-896
MnemonicsOfArgs(a) ==
    IF QuotedArgs(Len(a)) THEN Seq1([k \in 1..Len(a) |-> ToLower(a[k])])
    ELSE IF SingleMnemonicArgs(Len(a)) THEN <<ToLower(Join(a))>>
    ELSE <<>>

\* a variant that reads ctx.reader whatever the arguments are
ReaderNeededAlways(list) == TRUE

\* len(mnemonics) == 0: line 900
ReaderNeeded(list) == Len(list) = 0

\* the entries the scanner loop appends: lines 905-909
MnemonicsOfReader(rd) ==
    LET lines == ScanLines(rd.data)
    IN  Seq1([k \in 1..Len(lines) |-> ToLower(TrimSpace(lines[k]))])

\* a variant that does not look at the scanner's error
ScanFailedIgnored(rd) == FALSE

\* scanner.Err() != nil: line 910
ScanFailed(rd) == rd.err

\* !strings.Contains(strings.TrimSpace(mnemonics[0]), " "): line 915
OneWordPerLine(list) == ~ContainsSpace(TrimSpace(list[1]))

\* readShareMnemonics: lines 883-924; what it returns, the list it
\* assembled, and what it read.  mnemonics[0] of an empty list panics.
readShareMnemonics(a, rd) ==
    LET given == MnemonicsOfArgs(a)
        scan == ReaderNeeded(given)
        list == IF scan THEN given \o MnemonicsOfReader(rd) ELSE given
        used == [consumed |-> IF scan THEN Len(rd.data) ELSE 0,
                 reads |-> IF scan THEN 1 ELSE 0]
    IN  IF scan /\ ScanFailed(rd)
        THEN [ret |-> [kind |-> "error", err |-> "scanning input"], list |-> list] @@ used
        ELSE IF Len(list) = 0
        THEN [ret |-> [kind |-> "panic", err |-> "index out of range"], list |-> list] @@ used
        ELSE IF OneWordPerLine(list)
        THEN LET shares == convertWordsToShares(list)
             IN  [ret |-> IF shares.kind = "ok"
                          THEN [kind |-> "ok", mnemonics |-> shares.shares]
                          ELSE shares,
                  list |-> list] @@ used
        ELSE [ret |-> [kind |-> "ok", mnemonics |-> list], list |-> list] @@ used

(***************************************************************************)
(* The arguments and the readers the two functions are called with         *)
(***************************************************************************)
\* how many lines a reader delivers
MaxLines == 2

\* "a b", "A B", "ab", "a\tb", "", " a", "a  b"
SampleTokens ==
    { <<97, 32, 98>>, <<65, 32, 66>>, <<97, 98>>, <<97, 9, 98>>, <<>>,
      <<32, 97>>, <<97, 32, 32, 98>> }

\* the numbers of arguments, around the 20 of line 888
ArgCounts == {1, 2, 19, 20, 21}

\* n arguments: a first one, and the others alike
ArgList(n, x, y) == Seq1([k \in 1..n |-> IF k = 1 THEN x ELSE y])

ArgLists == {ArgList(n, x, y) : n \in ArgCounts, x \in SampleTokens, y \in SampleTokens}

\* "a b", "", " A\tb ", "a  b", "ab"
SampleLines ==
    { <<97, 32, 98>>, <<>>, <<32, 65, 9, 98, 32>>, <<97, 32, 32, 98>>, <<97, 98>> }

RECURSIVE LineLists(_)
LineLists(n) ==
    IF n = 0 THEN {<<>>}
    ELSE LET shorter == LineLists(n - 1)
         IN  shorter \cup {Append(l, x) : l \in {y \in shorter : Len(y) = n - 1},
                                          x \in SampleLines}

\* the lines one after the other, a newline after each, after the last one
\* only when last is true
RECURSIVE DataFrom(_, _, _)
DataFrom(lines, k, last) ==
    IF k > Len(lines) THEN <<>>
    ELSE lines[k] \o (IF k < Len(lines) \/ last THEN <<10>> ELSE <<>>)
         \o DataFrom(lines, k + 1, last)

\* the numbers of lines of the readers that deliver one word per line
WordLineCounts == {20, 33, 40, 41}

\* twenty lines of one word each, but for the second: "a b" or nothing
MixedLines == {[SampleWords(20, 1) EXCEPT ![2] = x] : x \in {<<97, 32, 98>>, <<>>}}

Readers ==
    {[data |-> DataFrom(l, 1, last), err |-> e] :
        l \in LineLists(MaxLines) \cup {SampleWords(n, 1) : n \in WordLineCounts}
              \cup MixedLines,
        last \in BOOLEAN, e \in BOOLEAN}

\* the readers of the calls that have arguments: nothing to deliver, a line,
\* and a line followed by a failure
ArgReaders ==
    { [data |-> <<>>, err |-> FALSE],
      [data |-> <<97, 32, 98, 10>>, err |-> FALSE],
      [data |-> <<97, 32, 98, 10>>, err |-> TRUE] }

InputInit ==
    /\ CompletionInit
    /\ SharesIdle
    /\ GroupsIdle
    /\ ConcIdle
    /\ inputFn = "none"
    /\ mnemonics = <<>>
    /\ consumed = 0
    /\ reads = 0
    /\ inputRet = NoReturn
    /\ \/ args \in ArgLists /\ reader \in ArgReaders
       \/ args = <<>> /\ reader \in Readers

\* a command calls readSeedMnemonic(ctx, args)
ReadSeedMnemonic ==
    /\ inputFn = "none"
    /\ inputFn' = "seed"
    /\ LET r == readSeedMnemonic(args, reader)
       IN  /\ inputRet' = r.ret
           /\ consumed' = r.consumed
           /\ reads' = r.reads
    /\ UNCHANGED <<args, reader, mnemonics, shareVars, groupVars, concVars, completionVars>>

\* a command calls readShareMnemonics(ctx, args)
ReadShareMnemonics ==
    /\ inputFn = "none"
    /\ inputFn' = "share"
    /\ LET r == readShareMnemonics(args, reader)
       IN  /\ inputRet' = r.ret
           /\ mnemonics' = r.list
           /\ consumed' = r.consumed
           /\ reads' = r.reads
    /\ UNCHANGED <<args, reader, shareVars, groupVars, concVars, completionVars>>

NextInput == ReadSeedMnemonic \/ ReadShareMnemonics

SpecInput == InputInit /\ [][NextInput]_vars

(***************************************************************************)
(* Parallel calls of bip39ChecksumWords: the tests call t.Parallel(), so   *)
(* their calls interleave statement by statement.  Each call has its own   *)
(* locals; the byte buffers live on the heap, bufs[b] being the buffer     *)
(* that make([]byte, entropySize) returned to call b.                      *)
(***************************************************************************)
\* the phrases of the parallel calls: 22 times the first vocabulary word
\* and a last word, or 11 times the first vocabulary word
ConcPhrases ==
    {Phrase(23, WordAt(SampleIndexes[1]), WordAt(SampleIndexes[1]), c) :
        c \in GoodWords \cup {<<"bad", 1>>}}
    \cup {Phrase(11, WordAt(SampleIndexes[1]), WordAt(SampleIndexes[1]),
                 WordAt(SampleIndexes[1]))}

\* a variant in which every call uses the one buffer of the first test
\* (a package-level buffer)
BufShared(p) == "TestBip39ChecksumWords"

\* the buffer call p uses, its own: buf := make([]byte, entropySize), line 959
BufOf(p) == p

\* test p calls bip39ChecksumWords(w); the 11 words are those of the
\* first test
ConcCall(p, w) ==
    /\ goroutines[p].pc = "idle"
    /\ Len(w) = 11 => p = "TestBip39ChecksumWords"
    /\ goroutines' = [goroutines EXCEPT ![p] =
                         [IdleGoroutine EXCEPT !.pc = "entropy", !.partialWords = w]]
    /\ UNCHANGED <<bufs, completionVars, shareVars, groupVars, inputVars>>

\* lines 943-959 of call p
ConcBegin(p) ==
    /\ goroutines[p].pc = "entropy"
    /\ LET g == goroutines[p]
           e == bip39Entropy(g.partialWords)
       IN  IF ~e.ok
           THEN /\ goroutines' = [goroutines EXCEPT ![p] =
                       [g EXCEPT !.pc = "done",
                                 !.ret = [kind |-> "error", err |-> e.err, word |-> e.word]]]
                /\ UNCHANGED bufs
           ELSE /\ goroutines' = [goroutines EXCEPT ![p] =
                       [g EXCEPT !.pc = "fill",
                                 !.entropyCandidate =
                                     BigLsh(e.value, EntropyToFill(g.partialWords)),
                                 !.i = 0,
                                 !.checksums = <<>>]]
                /\ bufs' = [bufs EXCEPT ![BufOf(p)] =
                               Seq1([k \in 1..EntropySize(g.partialWords) |-> 0])]
    /\ UNCHANGED <<completionVars, shareVars, groupVars, inputVars>>

\* entropyBytes := entropyCandidate.FillBytes(buf) of call p: line 961
ConcFill(p) ==
    /\ goroutines[p].pc = "fill"
    /\ goroutines[p].i < Iterations(goroutines[p].partialWords)
    /\ LET g == goroutines[p]
       IN  IF ~FillBytesFits(g.entropyCandidate, Len(bufs[BufOf(p)]))
           THEN /\ goroutines' = [goroutines EXCEPT ![p] =
                       [g EXCEPT !.pc = "done",
                                 !.ret = [kind |-> "panic",
                                          err |-> "math/big: buffer too small to fit value"]]]
                /\ UNCHANGED bufs
           ELSE /\ goroutines' = [goroutines EXCEPT ![p] = [g EXCEPT !.pc = "hash"]]
                /\ bufs' = [bufs EXCEPT ![BufOf(p)] =
                               FillBytes(g.entropyCandidate, Len(bufs[BufOf(p)]))]
    /\ UNCHANGED <<completionVars, shareVars, groupVars, inputVars>>

\* the rest of the loop body of call p, which hashes the bytes in the
\* buffer: lines 962-969
ConcHash(p) ==
    /\ goroutines[p].pc = "hash"
    /\ LET g == goroutines[p]
           entropyBytes == bufs[BufOf(p)]
           checksum == Checksum(Sha256FirstByte(entropyBytes), ChecksumBits(g.partialWords))
           idx == CheckwordIndex(g.i, ChecksumBits(g.partialWords), checksum)
       IN  goroutines' = [goroutines EXCEPT ![p] =
               [g EXCEPT !.pc = "fill",
                         !.checksums = Append(g.checksums, WordAt(idx)),
                         !.entropyCandidate = BigAdd(g.entropyCandidate, BigNewInt(1)),
                         !.i = g.i + 1]]
    /\ UNCHANGED <<bufs, completionVars, shareVars, groupVars, inputVars>>

\* return checksums, nil of call p: line 972
ConcReturn(p) ==
    /\ goroutines[p].pc = "fill"
    /\ goroutines[p].i >= Iterations(goroutines[p].partialWords)
    /\ goroutines' = [goroutines EXCEPT ![p] =
           [goroutines[p] EXCEPT !.pc = "done",
                                 !.ret = [kind |-> "ok", words |-> goroutines[p].checksums]]]
    /\ UNCHANGED <<bufs, completionVars, shareVars, groupVars, inputVars>>

NextConc ==
    \E p \in Procs :
        \/ \E w \in ConcPhrases : ConcCall(p, w)
        \/ ConcBegin(p)
        \/ ConcFill(p)
        \/ ConcHash(p)
        \/ ConcReturn(p)

SpecConc == Init /\ [][NextConc]_vars


(***************************************************************************)
(* parseGroups                                                             *)
(***************************************************************************)
GroupLimit == 16

\* \d
IsDigit(c) == c \in 48..57

\* reGroup.FindStringSubmatch(g) for ^(\d{1,2})of(\d{1,2})$: the two
\* submatches, or no match
MatchGroup(g) ==
    LET fits(d1) ==
            /\ Len(g) - d1 - 2 \in {1, 2}
            /\ \A q \in 1..d1 : IsDigit(g[q])
            /\ g[d1 + 1] = 111
            /\ g[d1 + 2] = 102
            /\ \A q \in (d1 + 3)..Len(g) : IsDigit(g[q])
    IN  IF \E d1 \in {1, 2} : fits(d1)
        THEN LET d1 == CHOOSE d \in {1, 2} : fits(d)
             IN  [ok |-> TRUE, m1 |-> SubSeq(g, 1, d1), m2 |-> SubSeq(g, d1 + 3, Len(g))]
        ELSE [ok |-> FALSE]

\* strconv.Atoi on a string of digits
RECURSIVE AtoiFrom(_, _, _)
AtoiFrom(ds, k, acc) ==
    IF k > Len(ds) THEN acc ELSE AtoiFrom(ds, k + 1, acc * 10 + (ds[k] - 48))

Atoi(ds) == AtoiFrom(ds, 1, 0)

\* %d
RECURSIVE Decimal(_)
Decimal(n) == IF n < 10 THEN <<48 + n>> ELSE Decimal(n \div 10) \o <<48 + (n % 10)>>

\* %q (strconv.Quote) on printable ASCII, tab and newline: the string between
\* double quotes, with a backslash before each double quote and backslash
QuoteChar(c) ==
    IF c = 34 THEN <<92, 34>>
    ELSE IF c = 92 THEN <<92, 92>>
    ELSE IF c = 9 THEN <<92, 116>>
    ELSE IF c = 10 THEN <<92, 110>>
    ELSE <<c>>

RECURSIVE QuoteFrom(_, _)
QuoteFrom(g, k) == IF k > Len(g) THEN <<>> ELSE QuoteChar(g[k]) \o QuoteFrom(g, k + 1)

Quote(g) == <<34>> \o QuoteFrom(g, 1) \o <<34>>

\* fmt.Errorf("invalid group definition: %q", g)
InvalidGroupDefinition(g) ==
    [kind |-> "error", msg |-> <<105, 110, 118, 97, 108, 105, 100, 32, 103, 114, 111, 117, 112, 32, 100, 101, 102, 105, 110, 105, 116, 105, 111, 110, 58, 32>> \o Quote(g)]

\* fmt.Errorf("invalid group format: %q (not \"MofN\", M <= N, N <= %d)", g, GroupLimit)
InvalidGroupFormat(g) ==
    [kind |-> "error",
     msg |-> <<105, 110, 118, 97, 108, 105, 100, 32, 103, 114, 111, 117, 112, 32, 102, 111, 114, 109, 97, 116, 58, 32>>
             \o Quote(g)
             \o <<32, 40, 110, 111, 116, 32, 34, 77, 111, 102, 78, 34, 44, 32, 77, 32, 60, 61, 32, 78, 44, 32, 78, 32, 60, 61, 32>>
             \o Decimal(GroupLimit) \o <<41>>]

\* a variant that does not compare the threshold with the count
GroupOutOfBoundsNoOrder(t, n) == t > GroupLimit \/ n > GroupLimit

\* t > GroupLimit || n > GroupLimit || t > n: line 984
GroupOutOfBounds(t, n) == t > GroupLimit \/ n > GroupLimit \/ t > n

\* the loop from token k on, groups = acc
RECURSIVE ParseGroupsFrom(_, _, _)
ParseGroupsFrom(tokens, k, acc) ==
    IF k > Len(tokens) THEN [kind |-> "ok", groups |-> acc]
    ELSE LET g == tokens[k]
             matches == MatchGroup(g)
         IN  IF ~matches.ok THEN InvalidGroupDefinition(g)
             ELSE LET t == Atoi(matches.m1)
                      n == Atoi(matches.m2)
                  IN  IF GroupOutOfBounds(t, n) THEN InvalidGroupFormat(g)
                      ELSE ParseGroupsFrom(tokens, k + 1,
                               Append(acc, [MemberThreshold |-> t, MemberCount |-> n]))

\* a variant that goes through the tokens from the last one to the first
parseGroupsReversed(tokens) ==
    ParseGroupsFrom(Seq1([k \in 1..Len(tokens) |-> tokens[Len(tokens) + 1 - k]]), 1, <<>>)

parseGroups(tokens) == ParseGroupsFrom(tokens, 1, <<>>)

(***************************************************************************)
(* The token lists parseGroups is called with                              *)
(***************************************************************************)
\* how many tokens a list has
MaxTokens == 2

GroupNumbers == {0, 2, 3, 16, 17}

\* "<t>of<n>"
GroupToken(t, n) == Decimal(t) \o <<111, 102>> \o Decimal(n)

\* "", "2of", "of3", "2OF3", "2of3 ", "123of4", "2of123", "02of03", "2\"of3"
\* and "3\\of4"
OddTokens ==
    { <<>>, <<50, 111, 102>>, <<111, 102, 51>>, <<50, 79, 70, 51>>,
      <<50, 111, 102, 51, 32>>, <<49, 50, 51, 111, 102, 52>>,
      <<50, 111, 102, 49, 50, 51>>, <<48, 50, 111, 102, 48, 51>>,
      <<50, 34, 111, 102, 51>>, <<51, 92, 111, 102, 52>> }

Tokens == {GroupToken(t, n) : t \in GroupNumbers, n \in GroupNumbers} \cup OddTokens

RECURSIVE TokenLists(_)
TokenLists(n) ==
    IF n = 0 THEN {<<>>}
    ELSE LET shorter == TokenLists(n - 1)
         IN  shorter \cup {Append(l, g) : l \in {x \in shorter : Len(x) = n - 1}, g \in Tokens}

GroupsInit ==
    /\ CompletionInit
    /\ SharesIdle
    /\ InputIdle
    /\ ConcIdle
    /\ groupstr \in TokenLists(MaxTokens)
    /\ groupsRet = NoReturn

\* a caller (BipSlipCmd.Run) calls parseGroups(groupstr)
ParseGroups ==
    /\ groupsRet = NoReturn
    /\ groupsRet' = parseGroups(groupstr)
    /\ UNCHANGED <<groupstr, shareVars, inputVars, concVars, completionVars>>

NextGroups == ParseGroups

SpecGroups == GroupsInit /\ [][NextGroups]_vars

(***************************************************************************)
(* The commands on the words of a seed: BipCheckwordCmd.Run from its       *)
(* arguments and its reader, and BipValCmd.Run.  The vocabulary is outside *)
(* the repository: the model spells the word of index idx with three       *)
(* letters, and any other string is a word outside the vocabulary.         *)
(***************************************************************************)
\* wordlist[idx] as a string
Spelling(idx) == <<97 + (idx \div 676), 97 + ((idx \div 26) % 26), 97 + (idx % 26)>>

\* the word a string is: the vocabulary word it spells, or the string itself
WordOfString(s) ==
    IF /\ Len(s) = 3
       /\ \A k \in 1..3 : s[k] >= 97 /\ s[k] <= 122
       /\ (s[1] - 97) * 676 + (s[2] - 97) * 26 + (s[3] - 97) < VocabularySize
    THEN WordAt((s[1] - 97) * 676 + (s[2] - 97) * 26 + (s[3] - 97))
    ELSE <<"s", s>>

WordsOfStrings(ss) == Seq1([k \in 1..Len(ss) |-> WordOfString(ss[k])])

\* a variant that splits at each space, as strings.Split(s, " ")
FieldsAtEachSpace(s) == SplitOnSpace(s)

\* strings.Fields(s): the runs of characters of s that are not white space
Fields(s) ==
    LET starts == {k \in 1..Len(s) :
                      ~IsSpaceChar(s[k]) /\ (k = 1 \/ IsSpaceChar(s[k - 1]))}
        StartOf(n) == CHOOSE k \in starts : Cardinality({j \in starts : j <= k}) = n
        EndOf(b) == CHOOSE e \in b..Len(s) :
                        /\ \A j \in b..e : ~IsSpaceChar(s[j])
                        /\ e = Len(s) \/ IsSpaceChar(s[e + 1])
    IN  Seq1([n \in 1..Cardinality(starts) |-> SubSeq(s, StartOf(n), EndOf(StartOf(n)))])

\* the line BipValCmd.Run writes: tickGlyph and "good" around the message
GoodLine == <<"tickGlyph", "BIP-39 mnemonic is", "good">>

\* a variant that writes its line with Quiet set too
BipValOutputAlways(quiet) == <<GoodLine>>

\* what BipValCmd.Run writes for a valid mnemonic: lines 570-573
BipValOutput(quiet) == IF quiet THEN <<>> ELSE <<GoodLine>>

\* BipCheckwordCmd.Run from its arguments and its reader, up to its call of
\* bip39ChecksumWords: lines 495-510
BipCheckwordCmdRun(c) ==
    LET m == readSeedMnemonic(args, reader).ret
    IN  IF m.kind = "error"
        THEN /\ pc = "idle"
             /\ entry' = "run"
             /\ cmd' = c
             /\ partialWords' = <<>>
             /\ written' = <<>>
             /\ validated' = 0
             /\ ret' = NoReturn
             /\ runRet' = [kind |-> "error", err |-> "reading mnemonic", cause |-> m.err]
             /\ pc' = "done"
             /\ UNCHANGED <<checksumVars, earlier, restVars>>
        ELSE RunBegin(c, WordsOfStrings(Fields(m.mnemonic)))

\* BipValCmd.Run: lines 556-576; partialWords keeps the words of the
\* mnemonic that bip39.IsMnemonicValid looks at
BipValCmdRun(quiet) ==
    /\ pc = "idle"
    /\ entry' = "bipval"
    /\ cmd' = [Quiet |-> quiet]
    /\ validated' = 0
    /\ ret' = NoReturn
    /\ pc' = "done"
    /\ LET m == readSeedMnemonic(args, reader).ret
       IN  IF m.kind = "error"
           THEN /\ partialWords' = <<>>
                /\ runRet' = m
                /\ written' = <<>>
           ELSE /\ partialWords' = WordsOfStrings(Fields(m.mnemonic))
                /\ IF ~IsMnemonicValid(WordsOfStrings(Fields(m.mnemonic)))
                   THEN /\ runRet' = [kind |-> "error",
                                      err |-> IF quiet THEN "" ELSE "invalid BIP-39 mnemonic"]
                        /\ written' = <<>>
                   ELSE /\ runRet' = [kind |-> "ok"]
                        /\ written' = BipValOutput(quiet)
    /\ UNCHANGED <<checksumVars, earlier, restVars>>

\* the seeds of the commands.  n vocabulary words, spelled
SeedWords(n) == Seq1([k \in 1..n |-> Spelling(SampleIndexes[(k % 6) + 1])])

\* the spelling of a word that makes a valid mnemonic of the words ss
ValidLast(ss) ==
    Spelling(CHOOSE idx \in 0..(VocabularySize - 1) :
                 IsMnemonicValid(Append(WordsOfStrings(ss), WordAt(idx))))

\* the spelling of a vocabulary word that does not
InvalidLast(ss) ==
    Spelling(CHOOSE idx \in 0..(VocabularySize - 1) :
                 ~IsMnemonicValid(Append(WordsOfStrings(ss), WordAt(idx))))

\* "zzz" and "Aaa": not in the vocabulary
OddWords == {<<122, 122, 122>>, <<65, 97, 97>>}

\* no word; 11 and 23 vocabulary words; these with a word replaced by one
\* outside the vocabulary; valid mnemonics of 12 and 24 words; these with a
\* last word that does not carry the checksum, or with a word outside the
\* vocabulary
SeedLists ==
    {<<>>, SeedWords(11), SeedWords(23)}
    \cup {[SeedWords(23) EXCEPT ![2] = w] : w \in OddWords}
    \cup {Append(SeedWords(n), ValidLast(SeedWords(n))) : n \in {11, 23}}
    \cup {Append(SeedWords(n), InvalidLast(SeedWords(n))) : n \in {11, 23}}
    \cup {[Append(SeedWords(11), ValidLast(SeedWords(11))) EXCEPT ![12] = w] : w \in OddWords}

\* the white space between the words of a reader, and around them
Gaps == << <<32>>, <<9>>, <<10>>, <<32, 32>>, <<13, 10>>, <<9, 32, 10>> >>

\* the words k.. of ss, the gap after a word chosen by the place of the word
RECURSIVE Spread(_, _)
Spread(ss, k) ==
    IF k > Len(ss) THEN <<>>
    ELSE ss[k] \o Gaps[(k % Len(Gaps)) + 1] \o Spread(ss, k + 1)

\* the ways to give the words ss: one quoted argument; one argument per
\* word; two arguments of several words; one argument with a mix of white
\* space; the reader with one word per line, with and without a last
\* newline; the reader with a mix of white space; a reader that fails
SeedInputs(ss) ==
    { [args |-> <<Join(ss)>>, reader |-> rd] : rd \in ArgReaders }
    \cup { [args |-> ss, reader |-> rd] : rd \in {r \in ArgReaders : ss # <<>>} }
    \cup { [args |-> <<Join(SubSeq(ss, 1, Len(ss) \div 2)),
                       Join(SubSeq(ss, (Len(ss) \div 2) + 1, Len(ss)))>>,
            reader |-> [data |-> <<>>, err |-> FALSE]] }
    \cup { [args |-> <<<<32, 9>>  \o Spread(ss, 1)>>,
            reader |-> [data |-> <<>>, err |-> FALSE]] }
    \cup { [args |-> <<>>, reader |-> [data |-> DataFrom(ss, 1, last), err |-> e]] :
              last \in BOOLEAN, e \in BOOLEAN }
    \cup { [args |-> <<>>, reader |-> [data |-> <<10, 32>> \o Spread(ss, 1), err |-> FALSE]] }

CommandInit ==
    /\ CompletionInit
    /\ SharesIdle
    /\ GroupsIdle
    /\ ConcIdle
    /\ inputFn = "none"
    /\ mnemonics = <<>>
    /\ consumed = 0
    /\ reads = 0
    /\ inputRet = NoReturn
    /\ \E ss \in SeedLists : \E in \in SeedInputs(ss) :
           /\ args = in.args
           /\ reader = in.reader

NextCommand ==
    \/ \E c \in Flags : BipCheckwordCmdRun(c)
    \/ \E quiet \in BOOLEAN : BipValCmdRun(quiet)
    \/ ChecksumWordsBegin
    \/ ChecksumWordsIterate
    \/ ChecksumWordsReturn
    \/ RunFinish

SpecCommand == CommandInit /\ [][NextCommand]_vars

(***************************************************************************)
(* The libraries behind BipSlipCmd, SlipBipCmd and SlipValCmd are outside  *)
(* the repository.  bip39 converts between a mnemonic and its entropy      *)
(* bytes, 11 bits a word, the checksum bits last.  slip39 is modelled as   *)
(* a secret sharing of one group: the secret is masked byte by byte with   *)
(* a key the passphrase gives, each masked byte is the value at 0 of a     *)
(* polynomial of degree threshold - 1 over the integers modulo 257, and    *)
(* member x holds its values at x.  A share is a line of words: one for    *)
(* the identifier, the member and the threshold, one for each value, and   *)
(* check words that fill the 20 words of the share of a 16-byte secret.    *)
(***************************************************************************)
\* bip39.EntropyFromMnemonic(mnemonic)
EntropyFromMnemonic(m) ==
    LET words == WordsOfStrings(Fields(m))
    IN  IF ~IsMnemonicValid(words)
        THEN [kind |-> "error", err |-> "invalid mnemonic"]
        ELSE [kind |-> "ok",
              entropy |-> PhraseEntropyBytes(
                              Seq1([k \in 1..Len(words) |-> GetWordIndex(words[k])[1]]))]

\* bip39.NewMnemonic(entropy)
NewMnemonic(entropy) ==
    LET n == Len(entropy)
        cs == n \div 4
        check == Sha256FirstByte(entropy) \div (2 ^ (8 - cs))
        Bit(j) == IF j <= 8 * n
                  THEN (entropy[((j - 1) \div 8) + 1] \div (2 ^ (7 - ((j - 1) % 8)))) % 2
                  ELSE (check \div (2 ^ (cs - (j - 8 * n)))) % 2
        Index(k) ==
            LET o == 11 * (k - 1)
            IN  1024 * Bit(o + 1) + 512 * Bit(o + 2) + 256 * Bit(o + 3) + 128 * Bit(o + 4)
                + 64 * Bit(o + 5) + 32 * Bit(o + 6) + 16 * Bit(o + 7) + 8 * Bit(o + 8)
                + 4 * Bit(o + 9) + 2 * Bit(o + 10) + Bit(o + 11)
    IN  IF n \notin {16, 20, 24, 28, 32}
        THEN [kind |-> "error", err |-> "invalid entropy length"]
        ELSE [kind |-> "ok",
              mnemonic |-> Join(Seq1([k \in 1..((8 * n + cs) \div 11) |-> Spelling(Index(k))]))]

\* the byte the passphrase and the identifier mask the secret with
PassphraseKey(pass, id) == (HashMix(pass, 1, 55) + id) % 256

\* the words of a share: the head word, the values ys, the check words
ShareWords(id, x, t, ys) ==
    LET RECURSIVE SumFrom(_)
        SumFrom(j) == IF j > Len(ys) THEN 0 ELSE (ys[j] + SumFrom(j + 1)) % VocabularySize
        Checks(sum) ==
            Seq1([q \in 1..(IF Len(ys) = 16 THEN 3 ELSE 0) |->
                     Spelling((sum * q + q) % VocabularySize)])
    IN  <<Spelling(id * 256 + (x - 1) * 16 + (t - 1))>>
        \o Seq1([j \in 1..Len(ys) |-> Spelling(ys[j])])
        \o Checks(SumFrom(1))

\* slip39.GenerateMnemonicsWithPassphrase(groupThreshold, groups, entropy,
\* passphrase) and ShareGroups.String(): the share lines of the one group;
\* id and coef are what the library draws at random
GenerateMnemonicsWithPassphrase(groupThreshold, groups, entropy, pass, id, coef) ==
    LET t == groups[1].MemberThreshold
        n == groups[1].MemberCount
        RECURSIVE Horner(_, _, _)
        Horner(j, x, d) ==
            IF d > t - 1 THEN 0
            ELSE (((coef + j + d) % 257) + x * Horner(j, x, d + 1)) % 257
        Lines(masked) ==
            Seq1([x \in 1..n |->
                Join(ShareWords(id, x, t,
                    Seq1([j \in 1..Len(entropy) |->
                        (masked[j] + x * Horner(j, x, 1)) % 257])))])
        Masked(key) == Seq1([j \in 1..Len(entropy) |-> (entropy[j] + key) % 256])
    IN  IF Len(groups) # 1 \/ groupThreshold # 1 \/ t < 1 \/ (t = 1 /\ n > 1)
           \/ Len(entropy) \notin {16, 32}
        THEN [kind |-> "error", err |-> "invalid group or secret"]
        ELSE [kind |-> "ok", lines |-> Lines(Masked(PassphraseKey(pass, id)))]

\* what the library reads in a share line
ParseShare(s) ==
    LET Parsed(ws, idx) ==
            LET n == IF Len(ws) = 20 THEN 16 ELSE 32
                h == idx[1][1]
                Checked(ys) ==
                    IF \E j \in 1..n : ys[j] > 256 THEN [ok |-> FALSE]
                    ELSE IF ws # ShareWords(h \div 256, ((h \div 16) % 16) + 1, (h % 16) + 1, ys)
                    THEN [ok |-> FALSE]
                    ELSE [ok |-> TRUE, id |-> h \div 256, x |-> ((h \div 16) % 16) + 1,
                          t |-> (h % 16) + 1, ys |-> ys]
            IN  IF Len(ws) \notin {20, 33} THEN [ok |-> FALSE]
                ELSE IF \E k \in 1..Len(ws) : ~idx[k][2] THEN [ok |-> FALSE]
                ELSE Checked(Seq1([j \in 1..n |-> idx[j + 1][1]]))
        Split(ws) == Parsed(ws, Seq1([k \in 1..Len(ws) |-> GetWordIndex(WordOfString(ws[k]))]))
    IN  Split(Fields(s))

\* the secret the parsed shares ps give
CombineShares(ps, pass) ==
    LET Inverse(a) == CHOOSE v \in 1..256 : (((a % 257) + 257) * v) % 257 = 1
        RECURSIVE Weight(_, _)
        Weight(k, m) ==
            IF m > Len(ps) THEN 1
            ELSE IF m = k THEN Weight(k, m + 1)
            ELSE (((ps[m].x * Inverse(ps[m].x - ps[k].x)) % 257) * Weight(k, m + 1)) % 257
        Secret(weights, key) ==
            LET RECURSIVE AtZero(_, _)
                AtZero(j, k) ==
                    IF k > Len(ps) THEN 0
                    ELSE (ps[k].ys[j] * weights[k] + AtZero(j, k + 1)) % 257
                Unmasked(masked) ==
                    IF \E j \in 1..Len(masked) : masked[j] > 255
                    THEN [kind |-> "error", err |-> "invalid share value"]
                    ELSE [kind |-> "ok",
                          entropy |-> Seq1([j \in 1..Len(masked) |->
                                               (masked[j] + 256 - key) % 256])]
            IN  Unmasked(Seq1([j \in 1..Len(ps[1].ys) |-> AtZero(j, 1)]))
    IN  IF ps = <<>> \/ \E k \in 1..Len(ps) : ~ps[k].ok
        THEN [kind |-> "error", err |-> "invalid mnemonic"]
        ELSE IF \E k \in 1..Len(ps) : \/ ps[k].id # ps[1].id
                                      \/ ps[k].t # ps[1].t
                                      \/ Len(ps[k].ys) # Len(ps[1].ys)
        THEN [kind |-> "error", err |-> "mnemonics of different sets"]
        ELSE IF Len(ps) # ps[1].t \/ Cardinality({ps[k].x : k \in 1..Len(ps)}) # ps[1].t
        THEN [kind |-> "error", err |-> "wrong number of mnemonics"]
        ELSE Secret(Seq1([k \in 1..Len(ps) |-> Weight(k, 1)]),
                    PassphraseKey(pass, ps[1].id))

\* slip39.CombineMnemonicsWithPassphrase(mnemonics, passphrase)
CombineMnemonicsWithPassphrase(list, pass) ==
    CombineShares(Seq1([k \in 1..Len(list) |-> ParseShare(list[k])]), pass)

\* CollateShareGroups(mnemonics) and ValidateMnemonicsWithPassphrase(
\* passphrase): every choice of threshold shares among the shares given is
\* combined, and all must give the same secret
ValidateMnemonicsWithPassphrase(list, pass) ==
    LET Validated(ps) ==
            LET combos == {c \in SUBSET (1..Len(ps)) : Cardinality(c) = ps[1].t}
                Pick(c) == Seq1([k \in 1..Cardinality(c) |->
                               ps[CHOOSE m \in c : Cardinality({o \in c : o <= m}) = k]])
                Agreed(results) ==
                    IF Cardinality(results) # 1 \/ \E r \in results : r.kind = "error"
                    THEN [kind |-> "error", err |-> "validating mnemonics"]
                    ELSE [kind |-> "ok", entropy |-> (CHOOSE r \in results : TRUE).entropy,
                          combinations |-> Cardinality(combos)]
            IN  IF ps = <<>> \/ \E k \in 1..Len(ps) : ~ps[k].ok
                THEN [kind |-> "error", err |-> "collating share groups"]
                ELSE Agreed({CombineShares(Pick(c), pass) : c \in combos})
    IN  Validated(Seq1([k \in 1..Len(list) |-> ParseShare(list[k])]))

\* passphrase := []byte{}; if cmd.Passphrase != "" { ... }: lines 594-597,
\* 621-624, 675-678
PassphraseBytes(p) == IF p # <<>> THEN p ELSE <<>>

\* BipSlipCmd.Run: lines 578-608
BipSlipCmdRun(c, id, coef) ==
    /\ pc = "idle"
    /\ entry' = "bs"
    /\ cmd' = c
    /\ pc' = "done"
    /\ LET Generated(shareGroups) ==
               IF shareGroups.kind = "error" THEN runRet' = shareGroups /\ written' = <<>>
               ELSE runRet' = [kind |-> "ok"] /\ written' = shareGroups.lines
           Grouped(e, groups) ==
               IF groups.kind = "error" THEN runRet' = groups /\ written' = <<>>
               ELSE Generated(GenerateMnemonicsWithPassphrase(c.GroupThreshold,
                        groups.groups, e.entropy, PassphraseBytes(c.Passphrase), id, coef))
           Converted(e) ==
               IF e.kind = "error" THEN runRet' = e /\ written' = <<>>
               ELSE Grouped(e, parseGroups(c.Groups))
           Read(m) ==
               IF m.kind = "error" THEN runRet' = m /\ written' = <<>>
               ELSE Converted(EntropyFromMnemonic(m.mnemonic))
       IN  Read(readSeedMnemonic(args, reader).ret)
    /\ UNCHANGED <<partialWords, checksumVars, ret, validated, earlier, restVars>>

\* the next command is given lines that BipSlipCmd.Run has written, as
\* arguments or through the reader; earlier keeps the command that wrote them
GiveShares(lines, viaReader) ==
    /\ pc = "done"
    /\ entry = "bs"
    /\ runRet.kind = "ok"
    /\ earlier' = [kind |-> "bs", cmd |-> cmd, lines |-> written,
                   mnemonic |-> readSeedMnemonic(args, reader).ret.mnemonic]
    /\ args' = IF viaReader THEN <<>> ELSE lines
    /\ reader' = [data |-> IF viaReader THEN DataFrom(lines, 1, TRUE) ELSE <<>>, err |-> FALSE]

\* SlipBipCmd.Run: lines 669-692
SlipBipCmdRun(c, lines, viaReader) ==
    /\ GiveShares(lines, viaReader)
    /\ entry' = "sb"
    /\ cmd' = c
    /\ pc' = "done"
    /\ LET Named(m) ==
               IF m.kind = "error" THEN runRet' = m /\ written' = <<>>
               ELSE runRet' = [kind |-> "ok"] /\ written' = <<m.mnemonic>>
           Combined(e) ==
               IF e.kind = "error" THEN runRet' = e /\ written' = <<>>
               ELSE Named(NewMnemonic(e.entropy))
           Read(r) ==
               /\ inputFn' = "share"
               /\ inputRet' = r.ret
               /\ mnemonics' = r.list
               /\ consumed' = r.consumed
               /\ reads' = r.reads
               /\ IF r.ret.kind # "ok" THEN runRet' = r.ret /\ written' = <<>>
                  ELSE Combined(CombineMnemonicsWithPassphrase(r.ret.mnemonics,
                                    PassphraseBytes(c.Passphrase)))
       IN  Read(readShareMnemonics(args', reader'))
    /\ UNCHANGED <<partialWords, checksumVars, ret, validated, shareVars, groupVars, concVars>>

\* SlipValCmd.Run: lines 610-667; c.CheckFile is the file the flag names:
\* whether one is named, whether it can be read, and what it holds
SlipValCmdRun(c, lines, viaReader) ==
    /\ GiveShares(lines, viaReader)
    /\ entry' = "sv"
    /\ cmd' = c
    /\ pc' = "done"
    /\ LET Good(v, what) == <<[good |-> TRUE, combinations |-> v.combinations,
                               plural |-> v.combinations > 1, produced |-> what]>>
           Checked(v, mnemonic, expectedMnemonic) ==
               IF mnemonic # expectedMnemonic
               THEN /\ runRet' = [kind |-> "error", err |-> "unexpected mnemonic",
                                  got |-> mnemonic, cf |-> expectedMnemonic]
                    /\ written' = <<>>
               ELSE runRet' = [kind |-> "ok"] /\ written' = Good(v, "check file")
           Named(v, m) ==
               IF m.kind = "error" THEN runRet' = m /\ written' = <<>>
               ELSE IF ~c.CheckFile.named
               THEN runRet' = [kind |-> "ok"] /\ written' = Good(v, m.mnemonic)
               ELSE IF ~c.CheckFile.readable
               THEN /\ runRet' = [kind |-> "error", err |-> "reading check file"]
                    /\ written' = <<>>
               ELSE Checked(v, m.mnemonic, TrimSpace(c.CheckFile.data))
           Validated(v) ==
               IF v.kind = "error" THEN runRet' = v /\ written' = <<>>
               ELSE Named(v, NewMnemonic(v.entropy))
           Read(r) ==
               /\ inputFn' = "share"
               /\ inputRet' = r.ret
               /\ mnemonics' = r.list
               /\ consumed' = r.consumed
               /\ reads' = r.reads
               /\ IF r.ret.kind # "ok" THEN runRet' = r.ret /\ written' = <<>>
                  ELSE Validated(ValidateMnemonicsWithPassphrase(r.ret.mnemonics,
                                     PassphraseBytes(c.Passphrase)))
       IN  Read(readShareMnemonics(args', reader'))
    /\ UNCHANGED <<partialWords, checksumVars, ret, validated, shareVars, groupVars, concVars>>

\* a valid mnemonic of 12 or of 24 words as arguments, one that is not
\* valid, or nothing and the mnemonic of 12 words in the reader
SlipInit ==
    /\ CompletionInit
    /\ SharesIdle
    /\ GroupsIdle
    /\ ConcIdle
    /\ inputFn = "none"
    /\ mnemonics = <<>>
    /\ consumed = 0
    /\ reads = 0
    /\ inputRet = NoReturn
    /\ \/ /\ args \in {Append(SeedWords(n), ValidLast(SeedWords(n))) : n \in {11, 23}}
                      \cup {Append(SeedWords(11), InvalidLast(SeedWords(11)))}
          /\ reader = [data |-> <<>>, err |-> FALSE]
       \/ /\ args = <<>>
          /\ reader = [data |-> Join(Append(SeedWords(11), ValidLast(SeedWords(11)))) \o <<10>>,
                       err |-> FALSE]

\* the commands: groups "2of3", "3of3" and "3of2"; the passphrases "" and
\* "TREZOR"; one, two or all of the share lines, in any order, as arguments
\* or through the reader, and the lines with a letter of the first one
\* changed, or without the last one; no check file, one that cannot
\* be read, and check files that hold the mnemonic, the mnemonic and white
\* space around it, the mnemonic and more, and nothing
NextSlip ==
    LET passphrases == {<<>>, <<84, 82, 69, 90, 79, 82>>}
        groups == {<<<<50, 111, 102, 51>>>>, <<<<51, 111, 102, 51>>>>, <<<<51, 111, 102, 50>>>>}
        some == {<<written[a]>> : a \in 1..Len(written)}
                \cup {<<written[q[1]], written[q[2]]>> :
                         q \in {o \in (1..Len(written)) \X (1..Len(written)) : o[1] # o[2]}}
        changed == [written EXCEPT ![1] =
                       [written[1] EXCEPT ![7] = IF written[1][7] = 97 THEN 98 ELSE 97]]
        m == readSeedMnemonic(args, reader).ret.mnemonic
        files == {[named |-> FALSE, readable |-> FALSE, data |-> <<>>],
                  [named |-> TRUE, readable |-> FALSE, data |-> <<>>]}
                 \cup {[named |-> TRUE, readable |-> TRUE, data |-> d] :
                          d \in {m, m \o <<10>>, <<32>> \o m \o <<13, 10>>,
                                 m \o <<32, 97>>, <<>>}}
    IN  \/ \E g \in groups, p \in passphrases,
              draw \in {[id |-> 1, coef |-> 5], [id |-> 6, coef |-> 250]} :
              BipSlipCmdRun([GroupThreshold |-> 1, Groups |-> g, Passphrase |-> p],
                            draw.id, draw.coef)
        \/ /\ entry = "bs" /\ runRet.kind = "ok"
           /\ \E p \in passphrases,
                 given \in {[lines |-> l, viaReader |-> FALSE] : l \in some \cup {written}}
                           \cup {[lines |-> SubSeq(written, 2, 3), viaReader |-> TRUE]} :
                  SlipBipCmdRun([Passphrase |-> p], given.lines, given.viaReader)
        \/ /\ entry = "bs" /\ runRet.kind = "ok"
           /\ \E p \in passphrases, f \in files,
                 given \in {[lines |-> written, viaReader |-> FALSE],
                            [lines |-> written, viaReader |-> TRUE],
                            [lines |-> changed, viaReader |-> TRUE],
                            [lines |-> SubSeq(written, 1, Len(written) - 1),
                             viaReader |-> FALSE]} :
                  SlipValCmdRun([Passphrase |-> p, CheckFile |-> f], given.lines,
                                given.viaReader)

SpecSlip == SlipInit /\ [][NextSlip]_vars

(***************************************************************************)
(* Properties of bip39ChecksumWords                                        *)
(***************************************************************************)
\* bip39ChecksumWords has just returned (to the test or to Run)
JustReturned == ret.kind # "none" /\ runRet.kind = "none" /\ pc \in {"done", "resume"}

\* the indexes of the words of a phrase of vocabulary words
IndexesOf(words) == Seq1([k \in 1..Len(words) |-> GetWordIndex(words[k])[1]])

AllInVocabulary(words) == \A k \in 1..Len(words) : GetWordIndex(words[k])[2]

\* the checksum asked for by the known words followed by the high bits hi of
\* a last index: the top bits of the first hash byte of those entropy bytes
CompletionChecksum(known, hi) ==
    ExpectedChecksum(Append(IndexesOf(known), hi * (2 ^ ((Len(known) + 1) \div 3))))

\* C1: for a partial phrase of 11 or 23 vocabulary words the list returned is
\* exactly the set of valid completions: a vocabulary word w is in it if and
\* only if the low checksumBits bits of w's index are the top checksumBits
\* bits of the first hash byte of the entropy bytes made of the known words'
\* bits followed by the high 11 - checksumBits bits of w's index.
C1_ExactCompletions ==
    (JustReturned /\ ret.kind = "ok") =>
        LET cb == (Len(partialWords) + 1) \div 3
            returned == {ret.words[k] : k \in 1..Len(ret.words)}
            wanted == Seq1([h \in 1..(2 ^ (11 - cb)) |-> CompletionChecksum(partialWords, h - 1)])
        IN  \A w \in 0..(VocabularySize - 1) :
                (WordAt(w) \in returned) <=> (w % (2 ^ cb) = wanted[(w \div (2 ^ cb)) + 1])

C1_Witness ==
    /\ JustReturned
    /\ ret.kind = "ok"
    /\ Len(partialWords) = 11
    /\ \E k \in 1..Len(ret.words) : GetWordIndex(ret.words[k])[1] % 16 # 0
    /\ WordAt(2047) \notin {ret.words[k] : k \in 1..Len(ret.words)}

\* C2: exactly 128 candidates for a valid 11-word partial phrase and exactly
\* 8 for a valid 23-word one, that is 2^(11 - checksumBits) with
\* checksumBits = (len(partial)+1)/3.
C2_CandidateCount ==
    (ret.kind = "ok") =>
        /\ Len(partialWords) = 11 => Len(ret.words) = 128
        /\ Len(partialWords) = 23 => Len(ret.words) = 8
        /\ Len(ret.words) = 2 ^ (11 - ((Len(partialWords) + 1) \div 3))

C2_Witness ==
    /\ ret.kind = "ok"
    /\ entry = "direct"
    /\ Len(partialWords) = 23
    /\ Len(ret.words) = 8

\* C3: two invocations on the same partial words return the same ordered
\* list (or the same error), whatever was invoked before them.
C3_Deterministic ==
    (pc = "done" /\ earlier.kind = "call" /\ earlier.words = partialWords) =>
        ret = earlier.ret

C3_Witness ==
    /\ pc = "done"
    /\ earlier.kind = "call"
    /\ earlier.words = partialWords
    /\ ret.kind = "ok"
    /\ Len(ret.words) = 128
    /\ ret = earlier.ret

\* C4: the k-th element (k from 0) of the list returned is the word with
\* index (k << checksumBits) | c_k: the indexes are strictly increasing and
\* no word appears twice.
C4_EnumerationOrder ==
    (JustReturned /\ ret.kind = "ok") =>
        LET cb == (Len(partialWords) + 1) \div 3
            idx == IndexesOf(ret.words)
        IN  /\ \A k \in 1..Len(idx) :
                   /\ idx[k] \div (2 ^ cb) = k - 1
                   /\ idx[k] % (2 ^ cb) = CompletionChecksum(partialWords, k - 1)
                   /\ ret.words[k] = WordAt(idx[k])
            /\ \A k \in 1..(Len(idx) - 1) : idx[k] < idx[k + 1]
            /\ \A j, k \in 1..Len(idx) : j # k => ret.words[j] # ret.words[k]

C4_Witness ==
    /\ JustReturned
    /\ ret.kind = "ok"
    /\ Len(ret.words) = 128
    /\ GetWordIndex(ret.words[128])[1] \div 16 = 127
    /\ \E k \in 1..128 : GetWordIndex(ret.words[k])[1] % 16 = 5

\* the position of the first word that is not in the vocabulary, 0 if none
FirstUnknown(words) ==
    IF AllInVocabulary(words) THEN 0
    ELSE CHOOSE k \in 1..Len(words) :
             /\ ~GetWordIndex(words[k])[2]
             /\ \A j \in 1..(k - 1) : GetWordIndex(words[j])[2]

\* C5: when a word of the partial phrase is not in the vocabulary the
\* completion returns an invalid-word error naming the first such word, in
\* phrase order, and no candidate list.
C5_InvalidWord ==
    (JustReturned /\ ~AllInVocabulary(partialWords)) =>
        /\ ret.kind = "error"
        /\ ret.err = "invalid mnemonic word"
        /\ ret.word = partialWords[FirstUnknown(partialWords)]
        /\ "words" \notin DOMAIN ret

C5_Witness ==
    /\ JustReturned
    /\ ret.kind = "error"
    /\ Len(partialWords) = 23
    /\ GetWordIndex(partialWords[1])[2]
    /\ ~GetWordIndex(partialWords[2])[2]
    /\ ~GetWordIndex(partialWords[23])[2]
    /\ partialWords[2] # partialWords[23]
    /\ ret.word = partialWords[2]

\* C6 as stated: a partial phrase of a word count other than 11 and 23 gets
\* the invalid-length error, no candidates and no output.
C6_Original ==
    (entry = "run" /\ Len(partialWords) \notin {11, 23}) =>
        /\ pc = "done"
        /\ runRet.kind = "error"
        /\ runRet.err = "invalid mnemonic seed length"
        /\ written = <<>>
        /\ ret = NoReturn
        /\ checksums = <<>>

\* C6 as amended: Run, given a word count other than 11 and 23, returns an
\* error without calling bip39ChecksumWords and without writing: the
\* invalid-length error citing the count when the count is not zero, and the
\* "no mnemonic seed provided" error when it is zero.
C6_InvalidLength ==
    (entry = "run" /\ Len(partialWords) \notin {11, 23}) =>
        /\ pc = "done"
        /\ runRet.kind = "error"
        /\ IF Len(partialWords) = 0
           THEN runRet.err = "no mnemonic seed provided"
           ELSE /\ runRet.err = "invalid mnemonic seed length"
                /\ runRet.length = Len(partialWords)
        /\ written = <<>>
        /\ ret = NoReturn
        /\ checksums = <<>>
        /\ i = 0

C6_Witness ==
    /\ entry = "run"
    /\ Len(partialWords) = 12
    /\ AllInVocabulary(partialWords)
    /\ pc = "done"
    /\ runRet.kind = "error"
    /\ runRet.length = 12

(***************************************************************************)
(* Properties of convertWordsToShares                                      *)
(***************************************************************************)
\* the number of words of each share of the list the words come from
OrigShareLength == Len(SplitOnSpace(origShares[1]))

\* C7 as stated: the words of N shares of 20 or of 33 words each, given to
\* convertWordsToShares, come back as the same N shares.
C7_Original ==
    (sharesRet.kind # "none" /\ origShares # <<>>) =>
        /\ sharesRet.kind = "ok"
        /\ sharesRet.shares = origShares

\* C7 as amended: the same, except for N shares of 20 words with N a
\* multiple of 33: their 20N words come back as 20N/33 shares of 33 words,
\* with the same words in the same order.
C7_RoundTrip ==
    (sharesRet.kind # "none" /\ origShares # <<>>) =>
        /\ sharesRet.kind = "ok"
        /\ IF OrigShareLength = 20 /\ Len(origShares) % 33 = 0
           THEN /\ Len(sharesRet.shares) = (20 * Len(origShares)) \div 33
                /\ \A j \in 1..Len(sharesRet.shares) :
                       Len(SplitOnSpace(sharesRet.shares[j])) = 33
                /\ WordsOf(sharesRet.shares) = flatWords
           ELSE sharesRet.shares = origShares

C7_Witness ==
    /\ sharesRet.kind = "ok"
    /\ Len(origShares) = 3
    /\ OrigShareLength = 20
    /\ Len(flatWords) = 60
    /\ sharesRet.shares = origShares

\* C8: on n > 0 words the share length is 33 when n mod 33 = 0, otherwise 20
\* when n mod 20 = 0, otherwise the call fails with an invalid-length error
\* citing n; on success there are n/L shares, share j is the words
\* j*L .. j*L+L-1 joined by single spaces, and the words of the shares in
\* order are the words given.
C8_ShareLengthRule ==
    (sharesRet.kind # "none" /\ Len(flatWords) > 0) =>
        LET n == Len(flatWords)
            len == IF n % 33 = 0 THEN 33 ELSE 20
        IN  IF n % 33 = 0 \/ n % 20 = 0
            THEN /\ sharesRet.kind = "ok"
                 /\ Len(sharesRet.shares) = n \div len
                 /\ \A j \in 1..(n \div len) :
                        SplitOnSpace(sharesRet.shares[j])
                            = SubSeq(flatWords, (j - 1) * len + 1, j * len)
                 /\ WordsOf(sharesRet.shares) = flatWords
            ELSE /\ sharesRet.kind = "error"
                 /\ sharesRet.err = "invalid SLIP39 word list length - not a multiple of 33 or 20"
                 /\ sharesRet.length = n
                 /\ "shares" \notin DOMAIN sharesRet

C8_Witness ==
    /\ sharesRet.kind = "ok"
    /\ origShares = <<>>
    /\ Len(flatWords) = 66
    /\ Len(sharesRet.shares) = 2
    /\ SplitOnSpace(sharesRet.shares[2]) = SubSeq(flatWords, 34, 66)

(***************************************************************************)
(* Properties of parseGroups                                               *)
(***************************************************************************)
\* C9: every (threshold, count) pair of a list parseGroups returns satisfies
\* 1 <= threshold <= count <= 16.
C9_GroupBounds ==
    (groupsRet.kind = "ok") =>
        \A k \in 1..Len(groupsRet.groups) :
            /\ 1 <= groupsRet.groups[k].MemberThreshold
            /\ groupsRet.groups[k].MemberThreshold <= groupsRet.groups[k].MemberCount
            /\ groupsRet.groups[k].MemberCount <= 16

\* the strings of one or two digits, and the number each one writes
DigitStrings == {<<a>> : a \in 48..57} \cup {<<a, b>> : a \in 48..57, b \in 48..57}
NumberOf(ds) == CHOOSE v \in 0..99 : ds = Decimal(v) \/ ds = <<48>> \o Decimal(v)

\* the token is digits, "of", digits, with one or two digits each
IsGroupPattern(g) ==
    \E d \in {1, 2} :
        /\ Len(g) >= d + 3
        /\ SubSeq(g, 1, d) \in DigitStrings
        /\ SubSeq(g, d + 1, d + 2) = <<111, 102>>
        /\ SubSeq(g, d + 3, Len(g)) \in DigitStrings

PatternThreshold(g) == NumberOf(SubSeq(g, 1, IF g[2] = 111 THEN 1 ELSE 2))
PatternCount(g) == NumberOf(SubSeq(g, (IF g[2] = 111 THEN 1 ELSE 2) + 3, Len(g)))

\* the token is one parseGroups is to reject
Offending(g) ==
    \/ ~IsGroupPattern(g)
    \/ PatternThreshold(g) > 16
    \/ PatternCount(g) > 16
    \/ PatternThreshold(g) > PatternCount(g)

FirstOffending(tokens) ==
    CHOOSE k \in 1..Len(tokens) :
        Offending(tokens[k]) /\ \A j \in 1..(k - 1) : ~Offending(tokens[j])

\* string t occurs in string m
Contains(m, t) == \E o \in 0..(Len(m) - Len(t)) : SubSeq(m, o + 1, o + Len(t)) = t

\* C10 as stated: parseGroups fails at the first token that does not match
\* the pattern, or whose threshold or count exceeds 16, or whose threshold
\* exceeds its count, with an error that contains that token verbatim, and
\* returns no list.
C10_Original ==
    (groupsRet.kind # "none" /\ \E k \in 1..Len(groupstr) : Offending(groupstr[k])) =>
        /\ groupsRet.kind = "error"
        /\ "groups" \notin DOMAIN groupsRet
        /\ Contains(groupsRet.msg, groupstr[FirstOffending(groupstr)])

\* no double quote, backslash, tab or newline in the string
PlainString(g) == \A q \in 1..Len(g) : g[q] \notin {34, 92, 9, 10}

\* C10 as amended: the same, with an error that contains that token between
\* double quotes as %q writes it: verbatim when the token holds no double
\* quote, backslash or control character, and with these escaped otherwise.
\* The error is the one of that token alone, whatever tokens follow it.
C10_FirstOffendingToken ==
    (groupsRet.kind # "none" /\ \E k \in 1..Len(groupstr) : Offending(groupstr[k])) =>
        LET g == groupstr[FirstOffending(groupstr)]
        IN  /\ groupsRet.kind = "error"
            /\ "groups" \notin DOMAIN groupsRet
            /\ Contains(groupsRet.msg, Quote(g))
            /\ PlainString(g) => Contains(groupsRet.msg, <<34>> \o g \o <<34>>)
            /\ groupsRet = IF IsGroupPattern(g) THEN InvalidGroupFormat(g)
                           ELSE InvalidGroupDefinition(g)

C10_Witness ==
    /\ groupsRet.kind = "error"
    /\ Len(groupstr) = 2
    /\ groupstr[1] = GroupToken(3, 2)
    /\ groupstr[2] = GroupToken(17, 3)
    /\ Contains(groupsRet.msg, GroupToken(3, 2))


\* C11: when parseGroups succeeds the list returned has one pair for each
\* token, in the order of the tokens, and pair k holds the threshold and the
\* count that token k writes.
C11_OnePairPerToken ==
    (groupsRet.kind = "ok") =>
        /\ Len(groupsRet.groups) = Len(groupstr)
        /\ \A k \in 1..Len(groupstr) :
               /\ IsGroupPattern(groupstr[k])
               /\ groupsRet.groups[k] =
                      [MemberThreshold |-> PatternThreshold(groupstr[k]),
                       MemberCount |-> PatternCount(groupstr[k])]

C11_Witness ==
    /\ groupsRet.kind = "ok"
    /\ groupstr = <<GroupToken(2, 3), GroupToken(3, 16)>>
    /\ groupsRet.groups = <<[MemberThreshold |-> 2, MemberCount |-> 3],
                            [MemberThreshold |-> 3, MemberCount |-> 16]>>


(***************************************************************************)
(* Properties of readSeedMnemonic and readShareMnemonics                   *)
(***************************************************************************)
\* the string has a space between two characters that are not white space
HasInternalSpace(s) ==
    \E p \in 1..Len(s), q \in 1..Len(s), r \in 1..Len(s) :
        /\ p < q /\ q < r
        /\ s[q] = 32
        /\ s[p] \notin {9, 10, 13, 32}
        /\ s[r] \notin {9, 10, 13, 32}

\* the string with its capital letters A-Z made small
Lowered(s) == [k \in 1..Len(s) |-> IF s[k] >= 65 /\ s[k] <= 90 THEN s[k] + 32 ELSE s[k]]

\* C12: readShareMnemonics with 1 to 19 arguments of which the first has an
\* internal space returns one entry for each argument, in their order, each
\* the argument in lower case.
C12_OneEntryPerToken ==
    (/\ inputFn = "share"
     /\ Len(args) >= 1 /\ Len(args) <= 19
     /\ HasInternalSpace(args[1])) =>
        /\ inputRet.kind = "ok"
        /\ Len(inputRet.mnemonics) = Len(args)
        /\ \A k \in 1..Len(args) : inputRet.mnemonics[k] = Lowered(args[k])

C12_Witness ==
    /\ inputFn = "share"
    /\ Len(args) = 19
    /\ args[1] = <<65, 32, 66>>
    /\ args[2] = <<97, 98>>
    /\ inputRet.kind = "ok"
    /\ inputRet.mnemonics[1] = <<97, 32, 98>>
    /\ inputRet.mnemonics[19] = <<97, 98>>


\* C13 as stated: readShareMnemonics with 20 arguments or more returns one
\* entry, the arguments joined by single spaces, in lower case.
C13_Original ==
    (inputFn = "share" /\ Len(args) >= 20) =>
        /\ inputRet.kind = "ok"
        /\ inputRet.mnemonics = <<Lowered(Join(args))>>

\* C13 as amended: the same when the joined arguments have a space between
\* two characters that are not white space; when they have none (all the
\* arguments but one at most are empty or white space) the one entry goes
\* through convertWordsToShares, which fails on the length 1.
C13_SingleJoinedEntry ==
    (inputFn = "share" /\ Len(args) >= 20) =>
        /\ consumed = 0
        /\ mnemonics = <<Lowered(Join(args))>>
        /\ IF HasInternalSpace(Join(args))
           THEN /\ inputRet.kind = "ok"
                /\ inputRet.mnemonics = <<Lowered(Join(args))>>
           ELSE /\ inputRet.kind = "error"
                /\ inputRet.err = "invalid SLIP39 word list length - not a multiple of 33 or 20"
                /\ inputRet.length = 1

C13_Witness ==
    /\ inputFn = "share"
    /\ Len(args) = 20
    /\ args[1] = <<65, 32, 66>>
    /\ args[2] = <<97, 32, 32, 98>>
    /\ inputRet.kind = "ok"
    /\ Len(inputRet.mnemonics) = 1
    /\ SubSeq(inputRet.mnemonics[1], 1, 9) = <<97, 32, 98, 32, 97, 32, 32, 98, 32>>


\* the lines of the reader that are not empty once trimmed, trimmed and in
\* lower case
SolidLines(data) ==
    LET lines == ScanLines(data)
        Trimmed(k) == Lowered(TrimSpace(lines[k]))
        keep == {k \in 1..Len(lines) : Len(Trimmed(k)) > 0}
        Nth(n) == CHOOSE k \in keep : Cardinality({o \in keep : o <= k}) = n
    IN  [n \in 1..Cardinality(keep) |-> Trimmed(Nth(n))]

\* C14: with no arguments the list readShareMnemonics assembles has one
\* entry for each line of the reader that is not empty once trimmed, and
\* none for the others: it holds no empty string.
C14_NoEmptyEntries ==
    (inputFn = "share" /\ args = <<>> /\ ~reader.err) =>
        /\ mnemonics = SolidLines(reader.data)
        /\ \A k \in 1..Len(mnemonics) : mnemonics[k] # <<>>

\* C15: with no arguments and a reader that has no line, readShareMnemonics
\* returns an error saying that nothing was given.
C15_EmptyInputError ==
    (inputFn = "share" /\ args = <<>> /\ reader.data = <<>> /\ ~reader.err) =>
        /\ inputRet.kind = "error"
        /\ inputRet.err = "no SLIP39 mnemonic words provided"

\* no tab and no two white space characters in a row
SingleSpaced(s) ==
    /\ \A k \in 1..Len(s) : s[k] # 9
    /\ \A k \in 1..(Len(s) - 1) :
           ~(s[k] \in {9, 10, 13, 32} /\ s[k + 1] \in {9, 10, 13, 32})

\* C16: what readSeedMnemonic and readShareMnemonics return from the lines
\* of the reader has its runs of white space collapsed to single spaces.
C16_WhitespaceCollapsed ==
    (inputFn # "none" /\ args = <<>> /\ inputRet.kind = "ok") =>
        IF inputFn = "seed"
        THEN SingleSpaced(inputRet.mnemonic)
        ELSE \A k \in 1..Len(inputRet.mnemonics) : SingleSpaced(inputRet.mnemonics[k])

\* the string has white space between two characters that are not
HasInternalWhitespace(s) ==
    \E p \in 1..Len(s), q \in 1..Len(s), r \in 1..Len(s) :
        /\ p < q /\ q < r
        /\ s[q] \in {9, 10, 13, 32}
        /\ s[p] \notin {9, 10, 13, 32}
        /\ s[r] \notin {9, 10, 13, 32}

\* C17: readShareMnemonics passes the list it assembled through
\* convertWordsToShares, and returns what that returns, when the first entry
\* has no internal white space, and returns the list as it is otherwise.
C17_RerouteRule ==
    (inputFn = "share" /\ mnemonics # <<>> /\ ~(args = <<>> /\ reader.err)) =>
        IF HasInternalWhitespace(mnemonics[1])
        THEN inputRet = [kind |-> "ok", mnemonics |-> mnemonics]
        ELSE LET shares == convertWordsToShares(mnemonics)
             IN  IF shares.kind = "ok"
                 THEN inputRet = [kind |-> "ok", mnemonics |-> shares.shares]
                 ELSE inputRet = shares


\* a reader that delivers nothing
NoInput == [data |-> <<>>, err |-> FALSE]

\* C18: called with one argument at least, readSeedMnemonic and
\* readShareMnemonics read nothing from the reader, and return what they
\* return when the reader has nothing to deliver.
C18_ReaderUntouched ==
    (inputFn # "none" /\ Len(args) > 0) =>
        /\ consumed = 0
        /\ reads = 0
        /\ inputFn = "seed" => inputRet = readSeedMnemonic(args, NoInput).ret
        /\ inputFn = "share" => inputRet = readShareMnemonics(args, NoInput).ret

C18_Witness ==
    /\ inputFn = "share"
    /\ Len(args) = 2
    /\ reader.data # <<>>
    /\ reader.err
    /\ inputRet.kind = "ok"
    /\ consumed = 0

\* C19: when the reader fails before its end, readSeedMnemonic and
\* readShareMnemonics return an error and no phrase and no list, having read
\* the reader once.
C19_ReadFailure ==
    (inputFn # "none" /\ args = <<>> /\ reader.err) =>
        /\ inputRet.kind = "error"
        /\ DOMAIN inputRet = {"kind", "err"}
        /\ inputRet.err = IF inputFn = "seed" THEN "reading stdin" ELSE "scanning input"
        /\ reads = 1

C19_Witness ==
    /\ inputFn = "share"
    /\ args = <<>>
    /\ reader.err
    /\ Len(ScanLines(reader.data)) = 2
    /\ Len(mnemonics) = 2
    /\ inputRet.kind = "error"


(***************************************************************************)
(* Parallel calls                                                          *)
(***************************************************************************)
\* what bip39ChecksumWords(words) returns when nothing else runs: the error
\* of the first unknown word, or the list whose k-th word is the one of the
\* entropy base plus k - 1
AloneResult(words) ==
    LET e == bip39Entropy(words)
        cb == ChecksumBits(words)
        base == BigLsh(e.value, EntropyToFill(words))
        Candidate(k) == FillBytes(BigAdd(base, BigNewInt(k)), EntropySize(words))
    IN  IF ~e.ok THEN [kind |-> "error", err |-> e.err, word |-> e.word]
        ELSE [kind |-> "ok",
              words |-> [k \in 1..Iterations(words) |->
                            WordAt(CheckwordIndex(k - 1, cb,
                                Checksum(Sha256FirstByte(Candidate(k - 1)), cb)))]]

\* C20: whatever the interleaving of the parallel calls, a call that has
\* returned has returned what it returns when it runs alone.
C20_ParallelCallsSafe ==
    \A p \in Procs :
        goroutines[p].pc = "done" =>
            goroutines[p].ret = AloneResult(goroutines[p].partialWords)

C20_Witness ==
    /\ \A p \in Procs : goroutines[p].pc = "done" /\ goroutines[p].ret.kind = "ok"
    /\ Len(goroutines["TestBip39ChecksumWords"].partialWords) = 11
    /\ Len(goroutines["TestBipCheckword"].partialWords) = 23
    /\ Len(goroutines["TestBip39ChecksumWords"].ret.words) = 128
    /\ goroutines["TestBipCheckword"].ret.words # <<>>


(***************************************************************************)
(* What BipCheckwordCmd.Run writes                                         *)
(***************************************************************************)
\* Run has returned, having been given 11 or 23 vocabulary words
RunDoneOnValidPhrase ==
    /\ entry = "run"
    /\ pc = "done"
    /\ Len(partialWords) \in {11, 23}
    /\ AllInVocabulary(partialWords)

\* C21: with Deterministic set and Multi unset, Run on 11 or 23 vocabulary
\* words writes one line: the words followed by the first candidate, or the
\* first candidate alone when Word is set.
C21_DeterministicOutput ==
    (RunDoneOnValidPhrase /\ cmd.Deterministic /\ ~cmd.Multi) =>
        /\ runRet = [kind |-> "ok"]
        /\ ret.kind = "ok"
        /\ Len(written) = 1
        /\ written[1] = IF cmd.Word THEN <<ret.words[1]>>
                        ELSE partialWords \o <<ret.words[1]>>

C21_Witness ==
    /\ RunDoneOnValidPhrase
    /\ cmd = [Multi |-> FALSE, Word |-> TRUE, Deterministic |-> TRUE]
    /\ Len(partialWords) = 11
    /\ written = <<<<ret.words[1]>>>>

\* C22: with Multi set, Run on 11 or 23 vocabulary words writes one line for
\* each candidate, in the order of bip39ChecksumWords: 128 lines or 8, each
\* the words followed by the candidate, or the candidate alone when Word is
\* set.
C22_MultiOutput ==
    (RunDoneOnValidPhrase /\ cmd.Multi) =>
        /\ runRet = [kind |-> "ok"]
        /\ ret.kind = "ok"
        /\ Len(written) = Len(ret.words)
        /\ Len(written) = IF Len(partialWords) = 11 THEN 128 ELSE 8
        /\ \A k \in 1..Len(written) :
               written[k] = IF cmd.Word THEN <<ret.words[k]>>
                            ELSE partialWords \o <<ret.words[k]>>

C22_Witness ==
    /\ RunDoneOnValidPhrase
    /\ cmd.Multi /\ ~cmd.Word
    /\ Len(partialWords) = 23
    /\ Len(written) = 8
    /\ written[8] = partialWords \o <<ret.words[8]>>
    /\ written[1] # written[8]


\* C27: Run checks its input in a fixed order.  No word gets the "no mnemonic
\* seed provided" error; otherwise a count other than 11 and 23 gets the
\* invalid-length error, whether or not a word is outside the vocabulary; the
\* invalid-word error is returned only for 11 or 23 words; and a Run that
\* returns an error has written nothing.
C27_CheckOrder ==
    (entry = "run" /\ pc = "done") =>
        /\ Len(partialWords) = 0 =>
               runRet = [kind |-> "error", err |-> "no mnemonic seed provided"]
        /\ (Len(partialWords) \notin {0, 11, 23}) =>
               runRet = [kind |-> "error", err |-> "invalid mnemonic seed length",
                         length |-> Len(partialWords)]
        /\ (runRet.kind = "error" /\ runRet.err = "invalid mnemonic word") =>
               Len(partialWords) \in {11, 23}
        /\ (Len(partialWords) \in {11, 23} /\ ~AllInVocabulary(partialWords)) =>
               /\ runRet.kind = "error"
               /\ runRet.err = "invalid mnemonic word"
        /\ runRet.kind = "error" => written = <<>>

C27_Witness ==
    /\ entry = "run"
    /\ pc = "done"
    /\ Len(partialWords) = 24
    /\ ~AllInVocabulary(partialWords)
    /\ runRet.kind = "error"
    /\ runRet.err = "invalid mnemonic seed length"
    /\ written = <<>>

(***************************************************************************)
(* The width of the candidates                                             *)
(***************************************************************************)
\* C29: for 11 or 23 vocabulary words, the phrases of the last vocabulary
\* word among them, each candidate the loop renders fits the buffer of
\* entropySize bytes, 16 or 32, and the rendering never fails.
C29_CandidateFits ==
    /\ ret.kind # "panic"
    /\ (pc = "loop" /\ Len(partialWords) \in {11, 23}) =>
           /\ AllInVocabulary(partialWords)
           /\ Len(buf) = EntropySize(partialWords)
           /\ Len(buf) = IF Len(partialWords) = 11 THEN 16 ELSE 32
           /\ i <= Iterations(partialWords)
           /\ i < Iterations(partialWords) =>
                  FillBytesFits(entropyCandidate, EntropySize(partialWords))

\* the last candidate of the phrase of 23 times the last vocabulary word
C29_Witness ==
    /\ pc = "loop"
    /\ Len(partialWords) = 23
    /\ \A k \in 1..23 : partialWords[k] = WordAt(VocabularySize - 1)
    /\ i = Iterations(partialWords) - 1
    /\ Len(entropyCandidate) = 32
    /\ \A k \in 2..32 : entropyCandidate[k] = 255


(***************************************************************************)
(* The shares of the word-list path                                        *)
(***************************************************************************)
\* the number of words of a string: its runs of characters that are not
\* white space
WordCount(s) ==
    Cardinality({k \in 1..Len(s) :
        ~IsSpaceChar(s[k]) /\ (k = 1 \/ IsSpaceChar(s[k - 1]))})

\* C30: every share readShareMnemonics returns after it passed its list
\* through convertWordsToShares has 20 words or 33.
C30_ShareWordCounts ==
    (inputFn = "share" /\ inputRet.kind = "ok" /\ OneWordPerLine(mnemonics)) =>
        \A k \in 1..Len(inputRet.mnemonics) :
            WordCount(inputRet.mnemonics[k]) \in {20, 33}


(***************************************************************************)
(* Properties of the commands on the words of a seed                       *)
(***************************************************************************)
\* the words of string s from position k on, a word ending at the first
\* white space after it
RECURSIVE WordsFromPosition(_, _)
WordsFromPosition(s, k) ==
    IF k > Len(s) THEN <<>>
    ELSE IF IsSpaceChar(s[k]) THEN WordsFromPosition(s, k + 1)
    ELSE LET stops == {j \in k..Len(s) : IsSpaceChar(s[j])}
             stop == IF stops = {} THEN Len(s) + 1
                     ELSE CHOOSE j \in stops : \A o \in stops : j <= o
         IN  <<SubSeq(s, k, stop - 1)>> \o WordsFromPosition(s, stop + 1)

\* the words of the arguments k.., one argument after the other
RECURSIVE WordsOfArguments(_, _)
WordsOfArguments(a, k) ==
    IF k > Len(a) THEN <<>>
    ELSE WordsFromPosition(a[k], 1) \o WordsOfArguments(a, k + 1)

\* the words supplied to a command: those of its arguments when it has
\* arguments, those the reader delivers when it has none
WordsSupplied ==
    WordsOfStrings(IF args # <<>> THEN WordsOfArguments(args, 1)
                   ELSE WordsFromPosition(reader.data, 1))

\* the reader is not read, or delivers its data
InputRead == args # <<>> \/ ~reader.err

\* what Run returns and writes on the words ws, with Multi or Deterministic
ExpectedRun(c, ws) ==
    IF Len(ws) = 0
    THEN [ret |-> [kind |-> "error", err |-> "no mnemonic seed provided"], out |-> <<>>]
    ELSE IF Len(ws) \notin {11, 23}
    THEN [ret |-> [kind |-> "error", err |-> "invalid mnemonic seed length",
                   length |-> Len(ws)], out |-> <<>>]
    ELSE LET r == AloneResult(ws)
             Line(k) == IF c.Word THEN <<r.words[k]>> ELSE ws \o <<r.words[k]>>
         IN  IF r.kind = "error" THEN [ret |-> r, out |-> <<>>]
             ELSE IF c.Multi
             THEN [ret |-> [kind |-> "ok"],
                   out |-> Seq1([k \in 1..Len(r.words) |-> Line(k)])]
             ELSE [ret |-> [kind |-> "ok"], out |-> <<Line(1)>>]

\* C28: what Run returns and writes with Multi or Deterministic set depends
\* on the words supplied alone, not on how the arguments or the reader
\* supply them: it is what Run returns and writes on these words.
C28_WordsOnly ==
    (entry = "run" /\ pc = "done" /\ InputRead /\ (cmd.Multi \/ cmd.Deterministic)) =>
        /\ partialWords = WordsSupplied
        /\ runRet = ExpectedRun(cmd, WordsSupplied).ret
        /\ written = ExpectedRun(cmd, WordsSupplied).out

\* the reader has delivered 23 words with tabs, newlines and spaces between
\* them, and Run has written the 8 phrases
C28_Witness ==
    /\ entry = "run"
    /\ pc = "done"
    /\ cmd.Multi
    /\ args = <<>>
    /\ \E k \in 1..Len(reader.data) : reader.data[k] = 9
    /\ \E k \in 2..Len(reader.data) : reader.data[k - 1] = 32 /\ reader.data[k] = 32
    /\ Len(WordsSupplied) = 23
    /\ runRet.kind = "ok"
    /\ Len(written) = 8

\* C23: BipValCmd.Run on a mnemonic that is not valid returns an error and
\* writes nothing, Quiet set or not; on a valid one it returns no error, and
\* writes nothing when Quiet is set and one line with "good" in it when not.
C23_ValidateOutput ==
    (entry = "bipval" /\ pc = "done" /\ InputRead) =>
        IF IsMnemonicValid(WordsSupplied)
        THEN /\ runRet = [kind |-> "ok"]
             /\ IF cmd.Quiet THEN written = <<>>
                ELSE /\ Len(written) = 1
                     /\ \E k \in 1..Len(written[1]) : written[1][k] = "good"
        ELSE /\ runRet.kind = "error"
             /\ written = <<>>

C23_Witness ==
    /\ entry = "bipval"
    /\ pc = "done"
    /\ cmd.Quiet
    /\ Len(WordsSupplied) = 24
    /\ IsMnemonicValid(WordsSupplied)
    /\ runRet = [kind |-> "ok"]
    /\ written = <<>>

\* an invalid mnemonic of vocabulary words, Quiet set: the error has no text
C23_WitnessInvalid ==
    /\ entry = "bipval"
    /\ pc = "done"
    /\ cmd.Quiet
    /\ Len(WordsSupplied) = 12
    /\ AllInVocabulary(WordsSupplied)
    /\ runRet = [kind |-> "error", err |-> ""]


(***************************************************************************)
(* The order of the Multi branch                                           *)
(***************************************************************************)
\* C26: in Multi mode no line is written before every candidate has been
\* validated; a Run that returns an error, a candidate having failed the
\* validity check, has written nothing; and a Run that returns no error has
\* validated and written every candidate.
C26_AllOrNothing ==
    (entry = "run" /\ cmd.Multi) =>
        /\ written # <<>> => (ret.kind = "ok" /\ validated = Len(ret.words))
        /\ runRet.kind = "error" => (pc = "done" /\ written = <<>>)
        /\ (pc = "done" /\ ret.kind = "ok" /\ validated < Len(ret.words)) =>
               /\ runRet.kind = "error"
               /\ runRet.seed = Append(partialWords, ret.words[validated + 1])
        /\ runRet.kind = "ok" =>
               /\ validated = Len(ret.words)
               /\ Len(written) = Len(ret.words)

\* the last of the 128 candidates failed the check: nothing is written
C26_Witness ==
    /\ entry = "run"
    /\ cmd.Multi
    /\ pc = "done"
    /\ ret.kind = "ok"
    /\ Len(ret.words) = 128
    /\ validated = 127
    /\ runRet.kind = "error"
    /\ runRet.err = "generated invalid mnemonic"
    /\ written = <<>>

\* the output loop at work
C26_WitnessOutput ==
    /\ entry = "run"
    /\ cmd.Multi
    /\ pc = "resume"
    /\ ret.kind = "ok"
    /\ validated = Len(ret.words)
    /\ Len(written) = 3


(***************************************************************************)
(* Properties of the commands on shares                                    *)
(***************************************************************************)
\* C24: BipSlipCmd.Run with the group "2of3" on a valid mnemonic, then
\* SlipBipCmd.Run with the same passphrase on two of the three lines it
\* wrote, given as two arguments, writes the mnemonic, and nothing else.
C24_RoundTrip ==
    (/\ entry = "sb"
     /\ pc = "done"
     /\ earlier.cmd.Groups = <<<<50, 111, 102, 51>>>>
     /\ cmd.Passphrase = earlier.cmd.Passphrase
     /\ Len(args) = 2
     /\ args[1] # args[2]) =>
        /\ Len(earlier.lines) = 3
        /\ \A k \in 1..2 : \E o \in 1..3 : args[k] = earlier.lines[o]
        /\ runRet = [kind |-> "ok"]
        /\ written = <<earlier.mnemonic>>

\* the second and the first line, the passphrase "TREZOR", 24 words
C24_Witness ==
    /\ entry = "sb"
    /\ pc = "done"
    /\ earlier.cmd.Groups = <<<<50, 111, 102, 51>>>>
    /\ cmd.Passphrase = <<84, 82, 69, 90, 79, 82>>
    /\ earlier.cmd.Passphrase = cmd.Passphrase
    /\ args = <<earlier.lines[2], earlier.lines[1]>>
    /\ WordCount(earlier.mnemonic) = 24
    /\ written = <<earlier.mnemonic>>

\* what string data holds between the white space before and after it
Core(data) ==
    LET solid == {k \in 1..Len(data) : data[k] \notin {9, 10, 13, 32}}
    IN  IF solid = {} THEN <<>>
        ELSE SubSeq(data, CHOOSE k \in solid : \A o \in solid : o >= k,
                          CHOOSE k \in solid : \A o \in solid : o <= k)

\* the shares were read, every combination of them gives one secret, and
\* its mnemonic is m
Recombined(m) ==
    LET Named(v) == v.kind = "ok" /\ NewMnemonic(v.entropy) = [kind |-> "ok", mnemonic |-> m]
    IN  /\ inputRet.kind = "ok"
        /\ Named(ValidateMnemonicsWithPassphrase(inputRet.mnemonics, cmd.Passphrase))

\* SlipValCmd.Run has returned no error and written its success message
ValidationSucceeded ==
    /\ runRet = [kind |-> "ok"]
    /\ Len(written) = 1
    /\ written[1].good

\* SlipValCmd.Run has returned an error and written nothing
ValidationFailed ==
    /\ runRet.kind \in {"error", "panic"}
    /\ written = <<>>

\* C25 as stated: with a check file, SlipValCmd.Run succeeds exactly when
\* all combinations validate and the mnemonic they give is the content of
\* the check file, and returns an error and writes nothing when it is not.
C25_Original ==
    (entry = "sv" /\ pc = "done" /\ cmd.CheckFile.named) =>
        IF /\ cmd.CheckFile.readable
           /\ Recombined(cmd.CheckFile.data)
        THEN ValidationSucceeded
        ELSE ValidationFailed

\* C25 as amended: the mnemonic is compared with the content of the check
\* file without the white space before and after it.
C25_CheckFile ==
    (entry = "sv" /\ pc = "done" /\ cmd.CheckFile.named) =>
        IF /\ cmd.CheckFile.readable
           /\ Recombined(Core(cmd.CheckFile.data))
        THEN ValidationSucceeded
        ELSE ValidationFailed

\* the check file holds the mnemonic and a newline
C25_Witness ==
    /\ entry = "sv"
    /\ pc = "done"
    /\ cmd.CheckFile.named
    /\ cmd.CheckFile.data = earlier.mnemonic \o <<10>>
    /\ ValidationSucceeded
    /\ written[1].combinations = 3

\* the combinations agree on another mnemonic than the one of the check file
C25_WitnessUnexpected ==
    /\ entry = "sv"
    /\ pc = "done"
    /\ cmd.CheckFile.named
    /\ cmd.CheckFile.data = earlier.mnemonic
    /\ cmd.Passphrase # earlier.cmd.Passphrase
    /\ runRet.kind = "error"
    /\ runRet.err = "unexpected mnemonic"
    /\ written = <<>>

\* a share with a changed word: the combinations do not agree
C25_WitnessDisagree ==
    /\ entry = "sv"
    /\ pc = "done"
    /\ runRet.kind = "error"
    /\ runRet.err = "validating mnemonics"

====
